---------------------------- MODULE Spec2Model ----------------------------
(***************************************************************************)
(* Kaza: search orchestration, queue and player state machines.            *)
(*                                                                         *)
(* The repository holds two EnhancedSearchManager classes, two              *)
(* KazagumoQueue classes and two KazagumoPlayer classes.  Each is modelled  *)
(* from its own source file; names of the second class of a pair carry the  *)
(* suffix of the file they come from (_p002, _p003, _p004).                 *)
(*                                                                         *)
(* Strings are sequences of tokens, so that prefixing ("ytsearch" ":" q),   *)
(* startsWith and key construction are computed and not assumed.            *)
(***************************************************************************)
EXTENDS Integers, Sequences, FiniteSets, TLC

VARIABLES
    now,          \* Date.now()
    searchCache,  \* EnhancedSearchManager.searchCache (Managers/EnhancedSearchManager.ts)
    searchStats,  \* EnhancedSearchManager.searchStats
    cache,        \* EnhancedSearchManager.cache (part_002)
    stack,        \* suspended frames of the search() call in flight, innermost last
    log,          \* attempts of the call in flight / last call, oldest first
    delays,       \* backoff delays waited by the call in flight / last call
    out,          \* how the last top-level call ended
    call,         \* the top-level call in flight / last made
    prev,         \* the top-level call before it, with its outcome
    ncalls,       \* top-level calls made so far
    impl,         \* which pair of queue and player classes the run exercises
    queue_p003,   \* KazagumoQueue (part_003)
    player_p004,  \* KazagumoPlayer (part_004)
    queue,        \* KazagumoQueue (Managers/KazagumoQueue.ts)
    player,       \* KazagumoPlayer (Managers/KazagumoPlayer.ts)
    pending,      \* awaits of KazagumoPlayer (Managers/KazagumoPlayer.ts) not yet settled
    qhist,        \* what the queue has been through since construction
    last,         \* what the last player operation or handler did
    nops,         \* queue and player operations made so far
    kazagumo,     \* Kazagumo: its players map and the players it has constructed
    moved,        \* PlayerMoved: the reconnect sequence in flight / last run
    probe,        \* a call of a pure function: its name, its arguments, its value
    late,         \* resolve calls whose timeout timer fired before the node answered
    pluginConfig  \* PluginConfig: its plugins map, its load order, how its last call ended

searchVars == <<now, searchCache, searchStats, cache, stack, log, delays, out, call, prev, ncalls>>

playbackVars == <<impl, queue_p003, player_p004, queue, player, pending, qhist, last, nops>>

managerVars == <<kazagumo, moved, probe, late, pluginConfig>>

vars == <<now, searchCache, searchStats, cache, stack, log, delays, out, call, prev, ncalls,
          impl, queue_p003, player_p004, queue, player, pending, qhist, last, nops,
          kazagumo, moved, probe, late, pluginConfig>>

-----------------------------------------------------------------------------
(* Bounds of the model *)

MaxCalls == 2
MaxTicks == 2
MaxFailures == 2
MaxQueue == 4
MaxOps == 6
MaxPending == 2
MaxPlayers == 3
MaxSuspended == 2

-----------------------------------------------------------------------------
(* Program constants *)

cacheTimeout == 300000
baseDelay == 1000
defaultMaxRetries == 2
cacheTtl_p002 == 300000
defaultRetryAttempts_p002 == 3
defaultLimit_p002 == 10
previousLimit == 10
defaultVolume == 100
maxVolume_p004 == 100
maxVolume == 200
delayStep_p002 == 1000

-----------------------------------------------------------------------------
(* Small helpers *)

Last(s) == s[Len(s)]
Front(s) == SubSeq(s, 1, Len(s) - 1)
Take(s, n) == SubSeq(s, 1, IF n < Len(s) THEN n ELSE Len(s))
Pow2(n) == IF n = 0 THEN 1 ELSE IF n = 1 THEN 2 ELSE IF n = 2 THEN 4 ELSE 8
EmptyMap == [k \in {} |-> 0]
MapSet(m, k, v) == [x \in (DOMAIN m) \cup {k} |-> IF x = k THEN v ELSE m[x]]
MapDel(m, k) == [x \in (DOMAIN m) \ {k} |-> m[x]]

-----------------------------------------------------------------------------
(* Inputs *)

TextQuery == <<"song">>
TrackUrl == <<"https://", "open.spotify.com", "/", "track", "/", "4iV5W9uYEdYUVa79Axb7Rh">>
Queries == {TextQuery, TrackUrl}

\* what node.rest.resolve(query) does: a load result, undefined, a rejection,
\* or nothing before the timeout timer fires
R_one == [kind |-> "result", loadType |-> "SEARCH_RESULT", tracks |-> <<"e1">>]
R_two == [kind |-> "result", loadType |-> "SEARCH_RESULT", tracks |-> <<"e1", "e2">>]
R_empty == [kind |-> "result", loadType |-> "NO_MATCHES", tracks |-> <<>>]
R_failed == [kind |-> "result", loadType |-> "LOAD_FAILED", tracks |-> <<>>]
R_null == [kind |-> "null", loadType |-> "", tracks |-> <<>>]
R_reject == [kind |-> "reject", loadType |-> "", tracks |-> <<>>]
R_timeout == [kind |-> "timeout", loadType |-> "", tracks |-> <<>>]

\* an upstream resolver: its first `failures` calls (all of them if `always`)
\* fail the way `fail` says; after that a query gets tracks if its engine
\* prefix (or "url" for a bare URL) is in `good`, and no matches otherwise
FailKinds == {"timeout", "reject", "loadFailed", "null"}
GoodSets == {{}, {"ytsearch"}, {"spsearch"}, {"ytsearch", "ytmsearch", "spsearch", "dzsearch", "url"}}
Resolver(fail, failures, always, good) ==
    [fail |-> fail, failures |-> failures, always |-> always, good |-> good]
Resolvers ==
    {Resolver("timeout", 0, FALSE, g) : g \in GoodSets}
    \cup {Resolver(k, n, FALSE, g) : k \in FailKinds, n \in 1..MaxFailures, g \in GoodSets}
    \cup {Resolver(k, 0, TRUE, {}) : k \in FailKinds}
SteadyResolvers ==
    {Resolver("timeout", 0, FALSE, g) : g \in GoodSets}
    \cup {Resolver("timeout", 0, TRUE, {})}

engineKey(query) ==
    IF Len(query) >= 2 /\ query[2] = ":" THEN query[1] ELSE "url"

\* the answer to the i-th resolve call of a top-level call
respond(resolver, i, query) ==
    IF resolver.always \/ i <= resolver.failures
    THEN CASE resolver.fail = "timeout" -> R_timeout
           [] resolver.fail = "reject" -> R_reject
           [] resolver.fail = "loadFailed" -> R_failed
           [] OTHER -> R_null
    ELSE IF engineKey(query) \in resolver.good THEN R_two ELSE R_empty

Opt(source, limit, retryAttempts, fallbackEngines, cacheResults) ==
    [source |-> source, limit |-> limit, retryAttempts |-> retryAttempts,
     fallbackEngines |-> fallbackEngines, cacheResults |-> cacheResults,
     requester |-> "u1"]

\* an absent option is "" (source), 0 (limit, retryAttempts), <<>> (fallbackEngines),
\* TRUE (cacheResults): the code reads them through ||, .length and !== false
FallbackLists == {<<>>, <<"ytmsearch", "ytsearch">>, <<"spotify", "youtube">>}
RetryOptions ==
    {Opt(s, 0, r, f, c) : s \in {"", "deezer"}, r \in {0, 2, 3},
                          f \in FallbackLists, c \in {FALSE}}
CacheOptions ==
    {Opt(s, 0, 1, f, c) : s \in {"", "deezer"},
                          f \in {<<>>, <<"spotify", "youtube">>}, c \in BOOLEAN}

-----------------------------------------------------------------------------
(* URLParser (static class) *)

isURL(input) ==
    /\ Len(input) >= 2
    /\ \/ input[1] \in {"http://", "https://"}
       \/ input[2] = ":"

isValidHTTPUrl(url) == isURL(url) /\ url[1] \in {"http://", "https://"}

spotifyRegex(url) ==
    /\ Len(url) = 6
    /\ url[1] \in {"http://", "https://"}
    /\ url[2] \in {"open.spotify.com", "spotify.com"}
    /\ url[3] = "/" /\ url[5] = "/"
    /\ url[4] \in {"track", "album", "playlist", "artist"}

determineType(segment) ==
    IF segment \in {"track", "song"} THEN "track"
    ELSE IF segment \in {"album", "playlist", "artist"} THEN segment
    ELSE "track"

\* the words of the URLs: [a-zA-Z0-9]+, \d+, [\w-]+, [a-z]{2}
Schemes == {"http://", "https://"}
AlnumWords ==
    {"4iV5W9uYEdYUVa79Axb7Rh", "dQw4w9WgXcQ", "123", "us", "name", "user1",
     "track", "song", "album", "playlist", "artist", "browse"}
DigitWords == {"123"}
Words == AlnumWords \cup {"my-song"}
CountryWords == {"us"}

\* the path of a URL: "/", segment, "/", segment, ... with the segments in `sets`
Path(url, sets) ==
    /\ Len(url) = 2 + 2 * Len(sets)
    /\ url[1] \in Schemes
    /\ \A i \in 1..Len(sets) : url[1 + 2 * i] = "/" /\ url[2 + 2 * i] \in sets[i]

\* the URL <scheme><host>/watch?v=<id>
Watch(url) ==
    /\ Len(url) = 5
    /\ url[1] \in Schemes
    /\ url[3] = "/" /\ url[4] = "watch?v=" /\ url[5] \in Words

Matched(group) == [ok |-> TRUE, group |-> group]
NoMatch == [ok |-> FALSE, group |-> ""]

\* url.match(platformPatterns[platform].regex): whether it matches, and match[1]
\* ("" when the group did not take part); the URLs carry no query string
regex(platform, url) ==
    CASE platform = "spotify" ->
           IF spotifyRegex(url) /\ url[6] \in AlnumWords THEN Matched(url[4]) ELSE NoMatch
      [] platform = "applemusic" ->
           IF /\ Path(url, <<CountryWords, {"album", "song", "playlist"}, Words, DigitWords>>)
              /\ url[2] = "music.apple.com"
           THEN Matched(url[4]) ELSE NoMatch
      [] platform = "youtube" ->
           IF \/ /\ Watch(url)
                 /\ url[2] \in {"youtube.com", "www.youtube.com"}
              \/ /\ Path(url, <<Words>>)
                 /\ url[2] \in {"youtu.be", "www.youtu.be"}
           THEN Matched(url[Len(url)]) ELSE NoMatch
      [] platform = "youtubeMusic" ->
           IF Watch(url) /\ url[2] = "music.youtube.com"
           THEN Matched(url[5]) ELSE NoMatch
      [] platform = "soundcloud" ->
           IF /\ Path(url, <<Words, Words>>)
              /\ url[2] \in {"soundcloud.com", "www.soundcloud.com"}
           THEN Matched("") ELSE NoMatch
      [] platform = "deezer" ->
           IF /\ \/ Path(url, <<{"track", "album", "playlist"}, DigitWords>>)
                 \/ Path(url, <<CountryWords, {"track", "album", "playlist"}, DigitWords>>)
              /\ url[2] \in {"deezer.com", "www.deezer.com"}
           THEN Matched(url[Len(url)]) ELSE NoMatch
      [] platform = "tidal" ->
           IF /\ Path(url, <<{"browse"}, {"track", "album", "playlist"}, DigitWords>>)
              /\ url[2] \in {"tidal.com", "www.tidal.com"}
           THEN Matched(url[6]) ELSE NoMatch
      [] platform = "qobuz" ->
           IF /\ Path(url, <<{"album", "track"}, Words, DigitWords>>)
              /\ url[2] \in {"qobuz.com", "www.qobuz.com"}
           THEN Matched(url[8]) ELSE NoMatch
      [] platform = "bandcamp" ->
           IF /\ Path(url, <<{"track", "album"}, Words>>)
              /\ url[2] \in {"user1.bandcamp.com"}
           THEN Matched("") ELSE NoMatch
      [] platform = "jiosaavn" ->
           IF /\ Path(url, <<{"song"}, Words, AlnumWords>>)
              /\ url[2] \in {"jiosaavn.com", "www.jiosaavn.com"}
           THEN Matched(url[8]) ELSE NoMatch

\* Object.entries(platformPatterns), in the order written
platformPatterns ==
    <<"spotify", "applemusic", "youtube", "youtubeMusic", "soundcloud", "deezer",
      "tidal", "qobuz", "bandcamp", "jiosaavn">>

RECURSIVE parseURLFrom(_, _)
parseURLFrom(url, i) ==
    IF i > Len(platformPatterns)
    THEN [platform |-> "http", type |-> "track", isValidUrl |-> isValidHTTPUrl(url)]
    ELSE LET match == regex(platformPatterns[i], url)
         IN  IF match.ok
             THEN [platform |-> platformPatterns[i],
                   type |-> determineType(IF match.group # "" THEN match.group
                                          ELSE "track"),
                   isValidUrl |-> TRUE]
             ELSE parseURLFrom(url, i + 1)

parseURL(url) == parseURLFrom(url, 1)

parse(input) ==
    IF isURL(input) THEN parseURL(input)
    ELSE [platform |-> "youtube", type |-> "unknown", isValidUrl |-> FALSE]

-----------------------------------------------------------------------------
(* URLParser (the class of Utils/URLParser.ts) *)

LongWords == {"4iV5W9uYEdYUVa79Axb7Rh", "dQw4w9WgXcQ"}    \* [a-zA-Z0-9_-]{11}
Slash == {"/"}
W3(host) == {host, "www." \o host}

\* an extractor: its type, the runs of segments it matches anywhere in the URL
\* (or only at its end)
Extractor(type, runs, atEnd) == [type |-> type, runs |-> runs, atEnd |-> atEnd]
Platform(key, hosts, uri, extractors) ==
    [key |-> key, hosts |-> hosts, uri |-> uri, extractors |-> extractors]
After(word, set) == <<Slash, {word}, Slash, set>>
After2(word, first, second) == <<Slash, {word}, Slash, first, Slash, second>>

\* Object.entries(this.platforms), in the order written; the URLs carry no
\* query string, no 'MPREb_' id and no 'pl.' id, so the extractors that need
\* one match nothing
platforms ==
    <<Platform("youtube", W3("youtube.com") \cup W3("youtu.be") \cup W3("music.youtube.com"),
               {},
               <<Extractor("track", {<<{"watch?v="}, LongWords>>,
                                     After("embed", LongWords),
                                     <<{"youtu.be", "www.youtu.be"}, Slash, LongWords>>},
                           FALSE),
                 Extractor("playlist", {}, FALSE),
                 Extractor("album", {}, FALSE),
                 Extractor("artist", {<<{"channel"}, Slash, Words>>}, FALSE)>>),
      Platform("youtubeMusic", W3("music.youtube.com"), {},
               <<Extractor("track", {<<{"watch?v="}, LongWords>>}, FALSE),
                 Extractor("playlist", {}, FALSE),
                 Extractor("album", {}, FALSE),
                 Extractor("artist", {<<{"channel"}, Slash, Words>>}, FALSE)>>),
      Platform("spotify", {"open.spotify.com", "spotify.com"}, {"spotify"},
               <<Extractor("track", {<<{"track"}, {"/", ":"}, AlnumWords>>}, FALSE),
                 Extractor("playlist", {<<{"playlist"}, {"/", ":"}, AlnumWords>>}, FALSE),
                 Extractor("album", {<<{"album"}, {"/", ":"}, AlnumWords>>}, FALSE),
                 Extractor("artist", {<<{"artist"}, {"/", ":"}, AlnumWords>>}, FALSE)>>),
      Platform("appleMusic", W3("music.apple.com"), {},
               <<Extractor("track", {After2("song", Words, DigitWords)}, FALSE),
                 Extractor("playlist", {}, FALSE),
                 Extractor("album", {After2("album", Words, DigitWords)}, FALSE),
                 Extractor("artist", {After2("artist", Words, DigitWords)}, FALSE)>>),
      Platform("deezer", W3("deezer.com"), {},
               <<Extractor("track", {After("track", DigitWords)}, FALSE),
                 Extractor("playlist", {After("playlist", DigitWords)}, FALSE),
                 Extractor("album", {After("album", DigitWords)}, FALSE),
                 Extractor("artist", {After("artist", DigitWords)}, FALSE)>>),
      Platform("soundcloud", W3("soundcloud.com"), {},
               <<Extractor("track", {<<Slash, Words, Slash, Words>>}, TRUE),
                 Extractor("playlist", {After2("sets", Words, Words)}, FALSE),
                 Extractor("artist", {<<Slash, Words>>}, TRUE)>>),
      Platform("jiosaavn", W3("jiosaavn.com"), {},
               <<Extractor("track", {After2("song", Words, Words)}, FALSE),
                 Extractor("album", {After2("album", Words, Words)}, FALSE),
                 Extractor("artist", {After2("artist", Words, Words)}, FALSE)>>),
      Platform("qobuz", W3("qobuz.com"), {},
               <<Extractor("track", {After("track", DigitWords)}, FALSE),
                 Extractor("album", {After2("album", Words, DigitWords)}, FALSE),
                 Extractor("artist", {After2("artist", Words, DigitWords)}, FALSE)>>),
      Platform("tidal", W3("tidal.com"), {},
               <<Extractor("track", {After("track", DigitWords)}, FALSE),
                 Extractor("album", {After("album", DigitWords)}, FALSE),
                 Extractor("artist", {After("artist", DigitWords)}, FALSE),
                 Extractor("playlist", {After("playlist", Words)}, FALSE)>>),
      Platform("bandcamp", {"user1.bandcamp.com"}, {},
               <<Extractor("track", {After("track", Words)}, FALSE),
                 Extractor("album", {After("album", Words)}, FALSE)>>)>>

\* url.match(extractor): one of the runs is found in the URL
Found(url, extractor) ==
    \E run \in extractor.runs :
        \E i \in 1..Len(url) :
            /\ i + Len(run) - 1 <= Len(url)
            /\ extractor.atEnd => i + Len(run) - 1 = Len(url)
            /\ \A j \in 1..Len(run) : url[i + j - 1] \in run[j]

\* the spotify: URI becomes 'https://open.spotify.com/' and then every ':' of
\* the whole string becomes '/', the one of 'https:' too
cleanURL(url) ==
    IF Len(url) >= 2 /\ url[1] = "spotify" /\ url[2] = ":"
    THEN <<"https///", "open.spotify.com", "/">>
         \o [i \in 1..(Len(url) - 2) |-> IF url[i + 2] = ":" THEN "/" ELSE url[i + 2]]
    ELSE url

matchesPlatform(url, platform) ==
    /\ Len(url) >= 2
    /\ \/ url[1] \in Schemes /\ url[2] \in platform.hosts
       \/ url[1] \in platform.uri /\ url[2] = ":"

createInvalidURLInfo == [platform |-> "unknown", type |-> "unknown", isValid |-> FALSE]

RECURSIVE extractFrom(_, _, _)
extractFrom(url, platform, i) ==
    IF i > Len(platform.extractors)
    THEN [platform |-> platform.key, type |-> "unknown", isValid |-> FALSE]
    ELSE IF Found(url, platform.extractors[i])
    THEN [platform |-> platform.key, type |-> platform.extractors[i].type,
          isValid |-> TRUE]
    ELSE extractFrom(url, platform, i + 1)

extractURLInfo(url, platform) == extractFrom(url, platform, 1)

RECURSIVE parseURLFrom_u(_, _)
parseURLFrom_u(cleanUrl, i) ==
    IF i > Len(platforms) THEN createInvalidURLInfo
    ELSE IF /\ matchesPlatform(cleanUrl, platforms[i])
            /\ extractURLInfo(cleanUrl, platforms[i]).isValid
    THEN extractURLInfo(cleanUrl, platforms[i])
    ELSE parseURLFrom_u(cleanUrl, i + 1)

\* parseURL of the instance class; a string is never empty here
parseURL_u(url) == parseURLFrom_u(cleanURL(url), 1)

-----------------------------------------------------------------------------
platformEngineTable ==
    [spotify |-> "spsearch", applemusic |-> "amsearch", youtube |-> "ytsearch",
     youtubeMusic |-> "ytmsearch", soundcloud |-> "scsearch", deezer |-> "dzsearch",
     tidal |-> "tidal", qobuz |-> "qobuz", bandcamp |-> "bandcamp", jiosaavn |-> "jiosaavn"]

getSearchEngine(platform) ==
    IF platform \in DOMAIN platformEngineTable THEN platformEngineTable[platform]
    ELSE "ytsearch"

-----------------------------------------------------------------------------
(* ErrorHandler (static class) *)

recoverableCodes ==
    {"NO_RESULTS", "SEARCH_FAILED", "TRACK_FAILED", "TIMEOUT", "RATE_LIMITED",
     "QUEUE_EMPTY", "TRACK_NOT_FOUND", "INVALID_INDEX"}

errorSuggestions(code) ==
    CASE code = "CONNECTION_FAILED" ->
           <<"Check if Lavalink server is running", "Verify server address and port",
             "Check firewall settings">>
      [] code = "NODE_UNAVAILABLE" ->
           <<"Add more Lavalink nodes", "Check node health status",
             "Verify node configuration">>
      [] code = "NO_RESULTS" ->
           <<"Try a different search term", "Check spelling and formatting",
             "Use platform-specific search">>
      [] code = "INVALID_URL" ->
           <<"Check URL format", "Ensure platform is supported",
             "Try a different URL from the platform">>
      [] OTHER -> <<>>

createError(code) ==
    [kaza |-> TRUE, code |-> code, recoverable |-> code \in recoverableCodes,
     suggestions |-> errorSuggestions(code)]

\* what a rejected node call or a TypeError throws: no code, no timestamp
RawError(message) ==
    [kaza |-> FALSE, code |-> message, recoverable |-> FALSE, suggestions |-> <<>>]

isKazaError(error) == error.kaza

retryableErrors == {"TIMEOUT", "CONNECTION_FAILED"}

\* a retry that does not take a timeout for a retryable error
retry_timeoutNotRetried(attempt, maxRetries, error) ==
    IF attempt = maxRetries THEN "throw"
    ELSE IF ~(isKazaError(error) /\ error.code = "CONNECTION_FAILED") THEN "throw"
    ELSE "delay"

\* ErrorHandler.retry, the catch block: what follows a failed attempt
retry(attempt, maxRetries, error) ==
    IF attempt = maxRetries THEN "throw"
    ELSE IF ~(isKazaError(error) /\ error.code \in retryableErrors) THEN "throw"
    ELSE "delay"

retryDelay(attempt) == baseDelay * Pow2(attempt)


-----------------------------------------------------------------------------
(* Records shared by both search managers *)

NoException == [code |-> "", severity |-> "", suggestions |-> <<>>]
NoError == [kaza |-> FALSE, code |-> "", recoverable |-> FALSE, suggestions |-> <<>>]
NoResult == [type |-> "none", tracks |-> <<>>]
Idle == [status |-> "idle", result |-> NoResult, error |-> NoError, at |-> 0]
NoCall == [cls |-> "", fn |-> "", query |-> <<>>, options |-> Opt("", 0, 0, <<>>, TRUE),
           at |-> 0, node |-> TRUE, resolver |-> Resolver("timeout", 0, FALSE, {})]

Returned(result, t) == [status |-> "returned", result |-> result, error |-> NoError, at |-> t]
Thrown(error, t) == [status |-> "thrown", result |-> NoResult, error |-> error, at |-> t]

KindOf(response) ==
    IF response.kind # "result" THEN response.kind
    ELSE IF response.loadType = "LOAD_FAILED" THEN "loadFailed"
    ELSE IF Len(response.tracks) = 0 THEN "empty"
    ELSE "tracks"

Attempt(engine, query, kind) == [engine |-> engine, query |-> query, kind |-> kind]

\* the state one synchronous run of manager code reads and writes
Here == [searchCache |-> searchCache, searchStats |-> searchStats, cache |-> cache,
         stack |-> stack, log |-> log, delays |-> delays, out |-> out]

Commit(s) ==
    /\ searchCache' = s.searchCache
    /\ searchStats' = s.searchStats
    /\ cache' = s.cache
    /\ stack' = s.stack
    /\ log' = s.log
    /\ delays' = s.delays
    /\ out' = s.out

Top(s) == Last(s.stack)
SetTop(s, f) == [s EXCEPT !.stack = Append(Front(@), f)]
Pop(s) == [s EXCEPT !.stack = Front(@)]
Settle(s, response) ==
    [s EXCEPT !.log = Append(Front(@), [Last(@) EXCEPT !.kind = KindOf(response)])]

-----------------------------------------------------------------------------
(* EnhancedSearchManager, Managers/EnhancedSearchManager.ts *)

defaultSearchEngine == "ytsearch"

engineMap ==
    [youtube |-> "ytsearch", yt |-> "ytsearch", youtubemusic |-> "ytmsearch",
     ytm |-> "ytmsearch", spotify |-> "spsearch", sp |-> "spsearch",
     applemusic |-> "amsearch", apple |-> "amsearch", am |-> "amsearch",
     deezer |-> "dzsearch", dz |-> "dzsearch", soundcloud |-> "scsearch",
     sc |-> "scsearch", jiosaavn |-> "jiosaavn", jio |-> "jiosaavn",
     qobuz |-> "qobuz", tidal |-> "tidal", bandcamp |-> "bandcamp",
     bc |-> "bandcamp", flowery |-> "flowery"]

normalizeSearchEngine(source) ==
    IF source \in DOMAIN engineMap THEN engineMap[source] ELSE "ytsearch"

determineSearchEngine(urlInfo, explicitSource) ==
    IF explicitSource # "" THEN normalizeSearchEngine(explicitSource)
    ELSE IF urlInfo.isValidUrl THEN getSearchEngine(urlInfo.platform)
    ELSE defaultSearchEngine

formatQuery(query, urlInfo, engine) ==
    IF urlInfo.isValidUrl THEN query ELSE <<engine, ":">> \o query

\* the base64 step is one-to-one, the key is the string it encodes
generateCacheKey(query, options) ==
    query \o <<"_", IF options.source # "" THEN options.source ELSE "default",
               "_", IF options.limit # 0 THEN ToString(options.limit) ELSE "all">>

getCachedResult(sc, query, options, t) ==
    LET cacheKey == generateCacheKey(query, options)
    IN  IF cacheKey \in DOMAIN sc /\ t - sc[cacheKey].timestamp < cacheTimeout
        THEN [hit |-> TRUE, result |-> sc[cacheKey].result]
        ELSE [hit |-> FALSE, result |-> NoResult]

cacheResult(sc, query, options, result, t) ==
    MapSet(sc, generateCacheKey(query, options), [result |-> result, timestamp |-> t])

determineResultType(loadType) ==
    CASE loadType = "TRACK_LOADED" -> "track"
      [] loadType = "PLAYLIST_LOADED" -> "playlist"
      [] loadType = "SEARCH_RESULT" -> "search"
      [] OTHER -> "error"

maxRetriesOf(options) ==
    IF options.retryAttempts # 0 THEN options.retryAttempts ELSE defaultMaxRetries

\* performSearch and the timeout race around it: what one attempt yields
performSearch(response, options) ==
    CASE response.kind = "timeout" ->
           [ok |-> FALSE, error |-> createError("TIMEOUT"), result |-> NoResult]
      [] response.kind = "reject" ->
           [ok |-> FALSE, error |-> RawError("rejected"), result |-> NoResult]
      [] response.kind = "null" ->
           [ok |-> FALSE, error |-> createError("NO_RESULTS"), result |-> NoResult]
      [] response.kind = "result" /\ response.loadType = "LOAD_FAILED" ->
           [ok |-> FALSE, error |-> createError("SEARCH_FAILED"), result |-> NoResult]
      [] response.kind = "result" /\ response.loadType # "LOAD_FAILED"
           /\ (response.loadType = "NO_MATCHES" \/ Len(response.tracks) = 0) ->
           [ok |-> FALSE, error |-> createError("NO_RESULTS"), result |-> NoResult]
      [] OTHER ->
           LET tracks == IF options.limit # 0 /\ Len(response.tracks) > options.limit
                         THEN Take(response.tracks, options.limit)
                         ELSE response.tracks
           IN  [ok |-> TRUE, error |-> NoError,
                result |-> [type |-> determineResultType(response.loadType),
                            tracks |-> [i \in 1..Len(tracks) |->
                                          [encoded |-> tracks[i],
                                           requester |-> options.requester]]]]

createErrorResult(query, error) ==
    [type |-> "error", tracks |-> <<>>, query |-> query, searchEngine |-> "unknown",
     fromCache |-> FALSE, platform |-> "",
     exception |-> [code |-> error.code,
                    severity |-> IF error.recoverable THEN "common" ELSE "fault",
                    suggestions |-> error.suggestions]]

fallbackOptions(options, fallbackEngine) ==
    [options EXCEPT !.source = fallbackEngine, !.fallbackEngines = <<>>,
                    !.retryAttempts = 1]

\* a search() frame has returned `result`; s.stack holds its callers, each of
\* them suspended at "return await this.search(query, fallbackOptions)"
RECURSIVE returnTo(_, _, _)
returnTo(s, result, t) ==
    IF s.stack = <<>> THEN [s EXCEPT !.out = Returned(result, t)]
    ELSE returnTo(Pop(s), result, t)

RECURSIVE searchFrom(_, _, _, _, _)

\* search, the catch block: count the error, then the fallback loop
catchBlock(s, error, node, t) ==
    LET f == Top(s)
        kazaError == IF isKazaError(error) THEN error ELSE createError("SEARCH_FAILED")
        s1 == [s EXCEPT !.searchStats.errors = @ + 1]
    IN  IF Len(f.options.fallbackEngines) > 0
        THEN searchFrom(SetTop(s1, [f EXCEPT !.pc = "fallback"]), f.query,
                        fallbackOptions(f.options, f.options.fallbackEngines[1]), node, t)
        ELSE returnTo(Pop(s1), createErrorResult(f.query, kazaError), t)

\* ErrorHandler.retry around the operation of performSearchWithRetry: the
\* attempt of the top frame has thrown `error`
failed(s, error, node, t) ==
    LET f == Top(s)
    IN  IF retry(f.attempt, maxRetriesOf(f.options), error) = "delay"
        THEN [SetTop(s, [f EXCEPT !.pc = "delay"])
                EXCEPT !.delays = Append(@, retryDelay(f.attempt))]
        ELSE catchBlock(s, error, node, t)

\* the operation passed to ErrorHandler.retry, up to its await
operation(s, node, t) ==
    LET f == Top(s)
    IN  IF ~node
        THEN failed([s EXCEPT !.log = Append(@, Attempt(f.searchEngine, f.formattedQuery, "noNode"))],
                    createError("NODE_UNAVAILABLE"), node, t)
        ELSE [SetTop(s, [f EXCEPT !.pc = "resolve"])
                EXCEPT !.log = Append(@, Attempt(f.searchEngine, f.formattedQuery, "pending"))]

\* search(query, options) from its first line to its first suspension
searchFrom(s, query, options, node, t) ==
    LET s1 == [s EXCEPT !.searchStats.totalSearches = @ + 1]
        cached == getCachedResult(s1.searchCache, query, options, t)
    IN  IF options.cacheResults /\ cached.hit
        THEN returnTo([s1 EXCEPT !.searchStats.cacheHits = @ + 1],
                      [cached.result EXCEPT !.fromCache = TRUE], t)
        ELSE LET urlInfo == parse(query)
                 searchEngine == determineSearchEngine(urlInfo, options.source)
                 frame == [cls |-> "ts", fn |-> "search", query |-> query,
                           options |-> options, platform |-> urlInfo.platform,
                           searchEngine |-> searchEngine,
                           formattedQuery |-> formatQuery(query, urlInfo, searchEngine),
                           attempt |-> 0, pc |-> "start"]
             IN  operation([s1 EXCEPT !.stack = Append(@, frame)], node, t)

\* search, lines 83-98: the attempt of the top frame has yielded `result`
succeeded(s, result, t) ==
    LET f == Top(s)
        enhancedResult == [type |-> result.type, tracks |-> result.tracks,
                           platform |-> f.platform, query |-> f.query,
                           searchEngine |-> f.searchEngine, fromCache |-> FALSE,
                           exception |-> NoException]
        s1 == IF Len(result.tracks) > 0 /\ f.options.cacheResults
              THEN [s EXCEPT !.searchCache =
                        cacheResult(@, f.query, f.options, enhancedResult, t)]
              ELSE s
    IN  returnTo(Pop(s1), enhancedResult, t)

\* bookkeeping of a top-level call; a summary of the call before it is kept
\* for properties that relate two consecutive calls
Summary ==
    [cls |-> call.cls, fn |-> call.fn, query |-> call.query, options |-> call.options,
     status |-> out.status, ntracks |-> Len(out.result.tracks), at |-> out.at]

NoSummary ==
    [cls |-> "", fn |-> "", query |-> <<>>, options |-> NoCall.options,
     status |-> "idle", ntracks |-> 0, at |-> 0]

CanCall == out.status = "idle" /\ ncalls < MaxCalls

NewCall(cls, fn, query, options, node, resolver) ==
    /\ ncalls' = ncalls + 1
    /\ call' = [cls |-> cls, fn |-> fn, query |-> query, options |-> options,
                at |-> now, node |-> node, resolver |-> resolver]
    /\ UNCHANGED <<now, prev, playbackVars, managerVars>>

\* the caller's await returns (or throws): the outcome is consumed
callerResumes(remember) ==
    /\ out.status \in {"returned", "thrown"}
    /\ prev' = IF remember THEN Summary ELSE prev
    /\ call' = NoCall
    /\ out' = Idle
    /\ log' = <<>>
    /\ delays' = <<>>
    /\ UNCHANGED <<now, searchCache, searchStats, cache, stack, ncalls, playbackVars, managerVars>>

Fresh == [Here EXCEPT !.log = <<>>, !.delays = <<>>,
                      !.out = [status |-> "pending", result |-> NoResult,
                               error |-> NoError, at |-> 0]]

\* resolve calls made so far by the top-level call, and the answer to the
\* pending one
ResolveCalls(l) == Len(SelectSeq(l, LAMBDA a : a.kind # "noNode"))
Response == respond(call.resolver, ResolveCalls(log), Last(log).query)

\* a caller invokes search(query, options)
search(Qs, Os, Us) ==
    /\ CanCall
    /\ \E query \in Qs, options \in Os, node \in BOOLEAN, resolver \in Us :
          /\ NewCall("ts", "search", query, options, node, resolver)
          /\ Commit(searchFrom(Fresh, query, options, node, now))

\* the node answers the pending resolve of the innermost frame, or the
\* timeout timer fires first
resolveSettled ==
    /\ stack # <<>>
    /\ Last(stack).cls = "ts" /\ Last(stack).pc = "resolve"
    /\ LET response == Response
           s == Settle(Here, response)
           r == performSearch(response, Last(stack).options)
       IN  Commit(IF r.ok THEN succeeded(s, r.result, now)
                  ELSE failed(s, r.error, call.node, now))
    /\ UNCHANGED <<now, call, prev, ncalls, playbackVars, managerVars>>

\* the backoff timer of ErrorHandler.retry fires: next attempt
delayElapsed ==
    /\ stack # <<>>
    /\ Last(stack).cls = "ts" /\ Last(stack).pc = "delay"
    /\ Commit(operation(SetTop(Here, [Last(stack) EXCEPT !.attempt = @ + 1]),
                        call.node, now))
    /\ UNCHANGED <<now, call, prev, ncalls, playbackVars, managerVars>>

-----------------------------------------------------------------------------
(* EnhancedSearchManager, part_002 *)

platformPrefixes ==
    {"ytsearch", "ytmsearch", "spsearch", "amsearch", "dzsearch", "scsearch",
     "jiosaavn", "qobuz", "tidal", "bandcamp"}

hasSearchPrefix(query) ==
    Len(query) >= 2 /\ query[1] \in platformPrefixes /\ query[2] = ":"

getSearchEngine_p002(query, options) ==
    IF hasSearchPrefix(query) THEN query[1] ELSE defaultSearchEngine

formatSearchQuery(query, engine) ==
    IF hasSearchPrefix(query) THEN query ELSE <<engine, ":">> \o query

defaultFallbacks_p002 == <<"ytsearch", "ytmsearch", "spsearch", "scsearch">>

getFallbackEngines(options) ==
    LET fallbacks == IF options.fallbackEngines # <<>> THEN options.fallbackEngines
                     ELSE defaultFallbacks_p002
    IN  SelectSeq(fallbacks, LAMBDA engine : engine \in platformPrefixes)

retryAttemptsOf(options) ==
    IF options.retryAttempts # 0 THEN options.retryAttempts ELSE defaultRetryAttempts_p002

limitOf(options) == IF options.limit # 0 THEN options.limit ELSE defaultLimit_p002

processSearchResult(result, options) ==
    [loadType |-> result.loadType,
     tracks |-> LET tracks == Take(result.tracks, limitOf(options))
                IN  [i \in 1..Len(tracks) |->
                       [encoded |-> tracks[i], requester |-> options.requester]]]

\* JSON.stringify(options): the fields that are set, in the order written
\* the keys of an options object, in the order the caller wrote them
KeysAsWritten ==
    <<"source", "limit", "retryAttempts", "fallbackEngines", "cacheResults", "requester">>

\* JSON.stringify of one property; a property that was not given is not there
property(options, key) ==
    CASE key = "source" ->
           IF options.source # "" THEN <<"source", options.source>> ELSE <<>>
      [] key = "limit" ->
           IF options.limit # 0 THEN <<"limit", ToString(options.limit)>> ELSE <<>>
      [] key = "retryAttempts" ->
           IF options.retryAttempts # 0
           THEN <<"retryAttempts", ToString(options.retryAttempts)>> ELSE <<>>
      [] key = "fallbackEngines" ->
           IF options.fallbackEngines # <<>>
           THEN <<"fallbackEngines", "[">> \o options.fallbackEngines \o <<"]">> ELSE <<>>
      [] key = "cacheResults" ->
           IF ~options.cacheResults THEN <<"cacheResults", "false">> ELSE <<>>
      [] key = "requester" -> <<"requester", options.requester>>

RECURSIVE properties(_, _)
properties(options, keys) ==
    IF keys = <<>> THEN <<>>
    ELSE property(options, Head(keys)) \o properties(options, Tail(keys))

\* JSON.stringify(options): the properties in the order of the object's keys
stringifyKeys(options, keys) == <<"{">> \o properties(options, keys) \o <<"}">>

stringify(options) == stringifyKeys(options, KeysAsWritten)

getCacheKey(query, options) == query \o <<"_">> \o stringify(options)

\* getFromCache: the cache after the lookup, and what the lookup returns
getFromCache(c, key, t) ==
    IF key \notin DOMAIN c THEN [cache |-> c, hit |-> FALSE, result |-> NoResult]
    ELSE IF t > c[key].timestamp + c[key].ttl
    THEN [cache |-> MapDel(c, key), hit |-> FALSE, result |-> NoResult]
    ELSE [cache |-> c, hit |-> TRUE, result |-> c[key].result]

addToCache(c, key, result, t) ==
    MapSet(c, key, [result |-> result, timestamp |-> t, ttl |-> cacheTtl_p002])

searchFailed_p002 ==
    [kaza |-> TRUE, code |-> "SEARCH_FAILED", recoverable |-> TRUE,
     suggestions |-> <<"Check your query format", "Try a different search engine",
                       "Verify Lavalink server status">>]

searchNoResults_p002 ==
    [kaza |-> TRUE, code |-> "SEARCH_NO_RESULTS", recoverable |-> TRUE,
     suggestions |-> <<"Try different keywords", "Check if the content exists",
                       "Verify your search terms">>]

\* performSearch, one pass of its loop up to the await of the race
RECURSIVE performSearch_p002(_, _, _)

RECURSIVE nextEngine_p002(_, _, _)

\* performSearch has thrown lastError to its caller
thrown_p002(s, node, t) ==
    LET f == Top(s)
    IN  IF f.fn = "search" THEN [Pop(s) EXCEPT !.out = Thrown(searchFailed_p002, t)]
        ELSE nextEngine_p002(s, node, t)

\* performSearch, the catch block of the loop
caught_p002(s, node, t) ==
    LET f == Top(s)
    IN  IF f.attempt < retryAttemptsOf(f.options)
        THEN [SetTop(s, [f EXCEPT !.pc = "delay"])
                EXCEPT !.delays = Append(@, delayStep_p002 * f.attempt)]
        ELSE thrown_p002(s, node, t)

performSearch_p002(s, node, t) ==
    LET f == Top(s)
    IN  IF ~node
        THEN caught_p002([s EXCEPT !.log = Append(@, Attempt(f.searchEngine, f.searchQuery, "noNode"))],
                         node, t)
        ELSE [SetTop(s, [f EXCEPT !.pc = "resolve"])
                EXCEPT !.log = Append(@, Attempt(f.searchEngine, f.searchQuery, "pending"))]

\* searchWithFallback, the loop: go on with the engine after the current one
nextEngine_p002(s, node, t) ==
    LET f == Top(s)
    IN  IF f.ei = Len(f.engines)
        THEN [Pop(s) EXCEPT !.out = Thrown(searchNoResults_p002, t)]
        ELSE LET engine == f.engines[f.ei + 1]
             IN  performSearch_p002(
                     SetTop(s, [f EXCEPT !.ei = @ + 1, !.attempt = 1,
                                         !.searchEngine = engine,
                                         !.searchQuery = formatSearchQuery(f.query, engine)]),
                     node, t)

\* a search that caches whatever performSearch returns
returned_p002_cachesAll(s, result, node, t) ==
    LET f == Top(s)
    IN  IF f.fn = "search"
        THEN [Pop(s) EXCEPT
                !.cache = addToCache(@, getCacheKey(f.query, f.options), result, t),
                !.out = Returned(result, t)]
        ELSE IF Len(result.tracks) > 0 THEN [Pop(s) EXCEPT !.out = Returned(result, t)]
        ELSE nextEngine_p002(s, node, t)

\* performSearch has returned `result` to its caller
returned_p002(s, result, node, t) ==
    LET f == Top(s)
    IN  IF f.fn = "search"
        THEN [Pop(s) EXCEPT
                !.cache = IF f.options.cacheResults /\ Len(result.tracks) > 0
                          THEN addToCache(@, getCacheKey(f.query, f.options), result, t)
                          ELSE @,
                !.out = Returned(result, t)]
        ELSE IF Len(result.tracks) > 0 THEN [Pop(s) EXCEPT !.out = Returned(result, t)]
        ELSE nextEngine_p002(s, node, t)

Frame_p002(fn, query, options, engines) ==
    [cls |-> "p002", fn |-> fn, query |-> query, options |-> options,
     searchEngine |-> "", searchQuery |-> <<>>, attempt |-> 1, pc |-> "start",
     engines |-> engines, ei |-> 0]

\* a caller invokes search(query, options) of the part_002 manager
search_p002(Qs, Os, Us) ==
    /\ CanCall
    /\ \E query \in Qs, options \in Os, node \in BOOLEAN, resolver \in Us :
          /\ NewCall("p002", "search", query, options, node, resolver)
          /\ LET looked == getFromCache(cache, getCacheKey(query, options), now)
                 s == [Fresh EXCEPT !.cache = IF options.cacheResults THEN looked.cache
                                              ELSE @]
                 searchEngine == getSearchEngine_p002(query, options)
                 frame == [Frame_p002("search", query, options, <<>>) EXCEPT
                             !.searchEngine = searchEngine,
                             !.searchQuery = formatSearchQuery(query, searchEngine)]
             IN  Commit(IF options.cacheResults /\ looked.hit
                        THEN [s EXCEPT !.out = Returned(looked.result, now)]
                        ELSE performSearch_p002([s EXCEPT !.stack = Append(@, frame)],
                                                node, now))

\* a caller invokes searchWithFallback(query, options)
searchWithFallback(Qs, Os, Us) ==
    /\ CanCall
    /\ \E query \in Qs, options \in Os, node \in BOOLEAN, resolver \in Us :
          /\ NewCall("p002", "searchWithFallback", query, options, node, resolver)
          /\ Commit(nextEngine_p002(
                 [Fresh EXCEPT !.stack =
                     Append(@, Frame_p002("searchWithFallback", query, options,
                                          getFallbackEngines(options)))],
                 node, now))

\* the race in performSearch settles: the node answers, or the timer rejects
resolveSettled_p002 ==
    /\ stack # <<>>
    /\ Last(stack).cls = "p002" /\ Last(stack).pc = "resolve"
    /\ LET response == Response
           s == Settle(Here, response)
       IN  Commit(IF response.kind = "result"
                  THEN returned_p002(s, processSearchResult(response, Last(stack).options),
                                     call.node, now)
                  ELSE caught_p002(s, call.node, now))
    /\ UNCHANGED <<now, call, prev, ncalls, playbackVars, managerVars>>

\* this.delay(1000 * attempt) is over: next pass of the loop
delayElapsed_p002 ==
    /\ stack # <<>>
    /\ Last(stack).cls = "p002" /\ Last(stack).pc = "delay"
    /\ Commit(performSearch_p002(SetTop(Here, [Last(stack) EXCEPT !.attempt = @ + 1]),
                                 call.node, now))
    /\ UNCHANGED <<now, call, prev, ncalls, playbackVars, managerVars>>

-----------------------------------------------------------------------------
(* Tracks and arrays *)

null == "null"

Tracks == {"t1", "t2", "t3"}
AddInputs == {<<"t1">>, <<"t2">>, <<"t1", "t2", "t3">>}
Indexes == {-1, 0, 1, 2, MaxQueue}

\* array[i] || null
At(array, i) == IF i >= 0 /\ i < Len(array) THEN array[i + 1] ELSE null
\* array.splice(i, 1)
RemoveAt(array, i) == SubSeq(array, 1, i) \o SubSeq(array, i + 2, Len(array))
\* array.splice(i, 0, x)
InsertAt(array, i, x) == SubSeq(array, 1, i) \o <<x>> \o SubSeq(array, i + 1, Len(array))
Swap(array, i, j) == [array EXCEPT ![i + 1] = array[j + 1], ![j + 1] = array[i + 1]]

\* the draws of Math.floor(Math.random() * (i + 1)) for i = n - 1 down to 1
Draws(n) == {rnd \in [1 .. n - 1 -> 0 .. n - 1] : \A i \in 1 .. n - 1 : rnd[i] <= i}

Ret(q, v) == [queue |-> q, value |-> v]

Min(a, b) == IF a < b THEN a ELSE b
Max(a, b) == IF a > b THEN a ELSE b

-----------------------------------------------------------------------------
(* KazagumoQueue (part_003) *)

newQueue_p003 ==
    [tracks |-> <<>>, current |-> null, repeat |-> 0, shuffle |-> FALSE,
     size |-> 0, currentIndex |-> 0, originalOrder |-> <<>>]

add_p003(q, tracksToAdd) ==
    [q EXCEPT !.tracks = @ \o tracksToAdd,
              !.originalOrder = @ \o tracksToAdd,
              !.size = Len(q.tracks) + Len(tracksToAdd)]

\* a remove() without the bounds check: splice() counts a negative index from
\* the end of the array
remove_p003_unchecked(q, index) ==
    LET start == IF index < 0 THEN Max(0, Len(q.tracks) + index) ELSE index
    IN  IF start >= Len(q.tracks) THEN Ret(q, null)
        ELSE LET removed == q.tracks[start + 1]
                 tracks == RemoveAt(q.tracks, start)
             IN  Ret([q EXCEPT !.tracks = tracks,
                               !.originalOrder = SelectSeq(@, LAMBDA t : t # removed),
                               !.size = Len(tracks)],
                     removed)

remove_p003(q, index) ==
    IF index < 0 \/ index >= Len(q.tracks) THEN Ret(q, null)
    ELSE LET removed == q.tracks[index + 1]
             tracks == RemoveAt(q.tracks, index)
         IN  Ret([q EXCEPT !.tracks = tracks,
                           !.originalOrder = SelectSeq(@, LAMBDA t : t # removed),
                           !.size = Len(tracks)],
                 removed)

clear_p003(q) ==
    [q EXCEPT !.tracks = <<>>, !.originalOrder = <<>>, !.currentIndex = 0,
              !.size = 0, !.current = null]

next_p003(q) ==
    IF Len(q.tracks) = 0 THEN Ret(q, null)
    ELSE IF q.repeat = 1 /\ q.current # null THEN Ret(q, q.current)
    ELSE IF q.repeat = 2 /\ q.currentIndex >= Len(q.tracks) - 1
         THEN LET nextTrack == At(q.tracks, 0)
              IN  Ret([q EXCEPT !.currentIndex = 0,
                                !.current = IF nextTrack # null THEN nextTrack ELSE @],
                      nextTrack)
    ELSE LET nextTrack == At(q.tracks, q.currentIndex + 1)
         IN  Ret([q EXCEPT !.currentIndex = @ + 1,
                           !.current = IF nextTrack # null THEN nextTrack ELSE @],
                 nextTrack)

previous_p003(q) ==
    IF Len(q.tracks) = 0 THEN Ret(q, null)
    ELSE LET index == Max(0, q.currentIndex - 1)
             prevTrack == At(q.tracks, index)
         IN  Ret([q EXCEPT !.currentIndex = index,
                           !.current = IF prevTrack # null THEN prevTrack ELSE @],
                 prevTrack)

skipTo_p003(q, index) ==
    IF index < 0 \/ index >= Len(q.tracks) THEN Ret(q, null)
    ELSE Ret([q EXCEPT !.currentIndex = index, !.current = q.tracks[index + 1]],
             q.tracks[index + 1])

move_p003(q, from, to) ==
    IF from < 0 \/ from >= Len(q.tracks) \/ to < 0 \/ to >= Len(q.tracks)
    THEN Ret(q, ToString(FALSE))
    ELSE Ret([q EXCEPT !.tracks = InsertAt(RemoveAt(@, from), to, q.tracks[from + 1])],
             ToString(TRUE))

setRepeat_p003(q, mode) == [q EXCEPT !.repeat = Max(0, Min(2, mode))]

RECURSIVE shuffleLoop(_, _, _)
shuffleLoop(array, i, rnd) ==
    IF i <= 0 THEN array
    ELSE shuffleLoop(Swap(array, i, rnd[i]), i - 1, rnd)

shuffleArray(array, rnd) == shuffleLoop(array, Len(array) - 1, rnd)

setShuffle_p003(q, enabled, rnd) ==
    IF enabled THEN [q EXCEPT !.shuffle = TRUE, !.tracks = shuffleArray(@, rnd)]
    ELSE [q EXCEPT !.shuffle = FALSE, !.tracks = q.originalOrder]

-----------------------------------------------------------------------------
(* KazagumoQueue (Managers/KazagumoQueue.ts) *)

RepeatModes == {"NONE", "TRACK", "QUEUE"}

newQueue == [tracks |-> <<>>, previous |-> <<>>, repeatMode |-> "NONE", shuffled |-> FALSE]

add(q, tracksToAdd) == [q EXCEPT !.tracks = @ \o tracksToAdd]

remove(q, index) ==
    IF index < 0 \/ index >= Len(q.tracks) THEN Ret(q, null)
    ELSE Ret([q EXCEPT !.tracks = RemoveAt(@, index)], q.tracks[index + 1])

removeFirst(q) ==
    IF Len(q.tracks) = 0 THEN Ret(q, null)
    ELSE Ret([q EXCEPT !.tracks = Tail(@)], Head(q.tracks))

clear(q) == [q EXCEPT !.tracks = <<>>, !.previous = <<>>]

shuffle(q, rnd) ==
    IF Len(q.tracks) <= 1 THEN q
    ELSE [q EXCEPT !.tracks = shuffleLoop(@, Len(q.tracks) - 1, rnd), !.shuffled = TRUE]

move(q, from, to) ==
    IF from < 0 \/ from >= Len(q.tracks) \/ to < 0 \/ to >= Len(q.tracks) THEN q
    ELSE [q EXCEPT !.tracks = InsertAt(RemoveAt(@, from), to, q.tracks[from + 1])]

getNext(q) ==
    IF Len(q.tracks) = 0 THEN Ret(q, null)
    ELSE IF q.repeatMode = "TRACK" THEN Ret(q, At(q.tracks, 0))
    ELSE LET first == removeFirst(q)
         IN  IF first.value = null /\ q.repeatMode = "QUEUE" /\ Len(q.previous) > 0
             THEN removeFirst([q EXCEPT !.tracks = q.previous, !.previous = <<>>])
             ELSE first

addToPrevious(q, track) ==
    LET pushed == Append(q.previous, track)
    IN  [q EXCEPT !.previous = IF Len(pushed) > previousLimit THEN Tail(pushed) ELSE pushed]

-----------------------------------------------------------------------------
(* Calls on a queue.  qhist keeps what the claims about a queue ask of its   *)
(* past: the tracks of a fill not yet followed by anything but next(), the   *)
(* values those next() calls returned, and the tracks held when a            *)
(* setShuffle(true) that followed only add() and remove() calls was made.    *)

\* nothing to tell of the last step: it was not a player operation
noEarlier ==
    [op |-> "", arg |-> "", nextCalls |-> 0, nextValue |-> null, cmds |-> <<>>,
     following |-> null]

noLast ==
    [op |-> "", arg |-> "", threw |-> "", cmds |-> <<>>, emitted |-> <<>>,
     nextCalls |-> 0, nextValue |-> null, connected |-> FALSE, head |-> null,
     tracks |-> <<>>, index |-> 0, listened |-> FALSE, before |-> null,
     qbefore |-> null, ints |-> <<>>, ret |-> null, earlier |-> noEarlier,
     following |-> null]

\* what a step keeps of the step before it (a 'track ended' of the skip() before
\* it, a destroy() of the destroy() before it); following: the track the queue
\* held next when that earlier step was taken
Earlier(following) ==
    [op |-> last.op, arg |-> last.arg, nextCalls |-> last.nextCalls,
     nextValue |-> last.nextValue, cmds |-> last.cmds, following |-> following]

newHist ==
    [phase |-> "filling", filled |-> <<>>, nexts |-> <<>>,
     plain |-> TRUE, armed |-> FALSE, before |-> <<>>, roundTrip |-> FALSE]

staleHist ==
    [phase |-> "other", filled |-> <<>>, nexts |-> <<>>,
     plain |-> FALSE, armed |-> FALSE, before |-> <<>>, roundTrip |-> FALSE]

Note(h, op, tracksToAdd, ret, tracks) ==
    LET phase == IF op \in {"add", "setRepeat"} /\ h.phase = "filling" THEN "filling"
                 ELSE IF op = "next" /\ h.phase \in {"filling", "stepping"} THEN "stepping"
                 ELSE "other"
        plain == h.plain /\ ~h.armed /\ op \in {"add", "remove"}
        armed == h.plain /\ ~h.armed /\ op = "setShuffle(true)"
        roundTrip == h.armed /\ op = "setShuffle(false)"
    IN  [phase |-> phase,
         filled |-> IF phase = "other" THEN <<>>
                    ELSE IF op = "add" THEN h.filled \o tracksToAdd ELSE h.filled,
         nexts |-> IF phase = "stepping" THEN Append(h.nexts, ret) ELSE <<>>,
         plain |-> plain,
         armed |-> armed,
         before |-> IF armed THEN tracks ELSE IF roundTrip THEN h.before ELSE <<>>,
         roundTrip |-> roundTrip]

CanUse(i) == impl \in {"", i} /\ nops < MaxOps

\* told: what the step leaves in last
QueueStep_p003(op, tracksToAdd, r, told) ==
    /\ queue_p003' = r.queue
    /\ qhist' = Note(qhist, op, tracksToAdd, r.value, queue_p003.tracks)
    /\ impl' = "p003"
    /\ nops' = nops + 1
    /\ last' = told
    /\ UNCHANGED <<searchVars, managerVars, player_p004, queue, player, pending>>

QueueCall_p003(op, tracksToAdd, r) == QueueStep_p003(op, tracksToAdd, r, noLast)

\* a call with indexes: the indexes, the value returned and the queue before
IndexCall_p003(op, ints, r) ==
    QueueStep_p003(op, <<>>, r,
                   [noLast EXCEPT !.op = op, !.ints = ints, !.ret = r.value,
                                  !.qbefore = queue_p003])

queueAdd_p003 ==
    /\ CanUse("p003")
    /\ \E tracksToAdd \in AddInputs :
          /\ Len(queue_p003.tracks) + Len(tracksToAdd) <= MaxQueue
          /\ QueueCall_p003("add", tracksToAdd, Ret(add_p003(queue_p003, tracksToAdd), null))

queueRemove_p003 ==
    /\ CanUse("p003")
    /\ \E index \in Indexes :
          IndexCall_p003("remove", <<index>>, remove_p003(queue_p003, index))

queueClear_p003 ==
    /\ CanUse("p003")
    /\ QueueCall_p003("clear", <<>>, Ret(clear_p003(queue_p003), null))

queueNext_p003 ==
    /\ CanUse("p003")
    /\ QueueCall_p003("next", <<>>, next_p003(queue_p003))

queuePrevious_p003 ==
    /\ CanUse("p003")
    /\ QueueCall_p003("previous", <<>>, previous_p003(queue_p003))

queueSkipTo_p003 ==
    /\ CanUse("p003")
    /\ \E index \in Indexes : QueueCall_p003("skipTo", <<>>, skipTo_p003(queue_p003, index))

queueMove_p003 ==
    /\ CanUse("p003")
    /\ \E from \in Indexes, to \in Indexes :
          IndexCall_p003("move", <<from, to>>, move_p003(queue_p003, from, to))

queueSetRepeat_p003 ==
    /\ CanUse("p003")
    /\ \E mode \in -1 .. 3 :
          QueueCall_p003("setRepeat", <<>>, Ret(setRepeat_p003(queue_p003, mode), null))

queueSetShuffle_p003 ==
    /\ CanUse("p003")
    /\ \/ \E rnd \in Draws(Len(queue_p003.tracks)) :
             QueueCall_p003("setShuffle(true)", <<>>,
                            Ret(setShuffle_p003(queue_p003, TRUE, rnd), null))
       \/ QueueCall_p003("setShuffle(false)", <<>>,
                         Ret(setShuffle_p003(queue_p003, FALSE, <<>>), null))

QueueCall(op, tracksToAdd, r) ==
    /\ queue' = r.queue
    /\ qhist' = Note(qhist, op, tracksToAdd, r.value, queue.tracks)
    /\ impl' = "ts"
    /\ nops' = nops + 1
    /\ last' = noLast
    /\ UNCHANGED <<searchVars, managerVars, queue_p003, player_p004, player, pending>>

queueAdd ==
    /\ CanUse("ts")
    /\ \E tracksToAdd \in AddInputs :
          /\ Len(queue.tracks) + Len(tracksToAdd) <= MaxQueue
          /\ QueueCall("add", tracksToAdd, Ret(add(queue, tracksToAdd), null))

queueRemove ==
    /\ CanUse("ts")
    /\ \E index \in Indexes : QueueCall("remove", <<>>, remove(queue, index))

queueClear ==
    /\ CanUse("ts")
    /\ QueueCall("clear", <<>>, Ret(clear(queue), null))

queueShuffle ==
    /\ CanUse("ts")
    /\ \E rnd \in Draws(Len(queue.tracks)) :
          QueueCall("shuffle", <<>>, Ret(shuffle(queue, rnd), null))

queueMove ==
    /\ CanUse("ts")
    /\ \E from \in Indexes, to \in Indexes :
          QueueCall("move", <<>>, Ret(move(queue, from, to), null))

queueSetRepeat ==
    /\ CanUse("ts")
    /\ \E mode \in RepeatModes :
          QueueCall("setRepeat", <<>>, Ret([queue EXCEPT !.repeatMode = mode], null))

queueGetNext ==
    /\ CanUse("ts")
    /\ QueueCall("next", <<>>, getNext(queue))

queueAddToPrevious ==
    /\ CanUse("ts")
    /\ \E track \in Tracks :
          QueueCall("addToPrevious", <<>>, Ret(addToPrevious(queue, track), null))

-----------------------------------------------------------------------------
(* What one player operation or handler does: the commands it sends to the   *)
(* node, the events it emits, its calls of queue.next(), what it throws.     *)

Cmd(name, arg) == [cmd |-> name, arg |-> arg]

World(p, q) ==
    [player |-> p, queue |-> q, cmds |-> <<>>, emitted |-> <<>>,
     nextCalls |-> 0, nextValue |-> null, threw |-> "", waits |-> <<>>]

\* w.waits: the continuations this operation leaves behind at its awaits
Await(w, continuation) == [w EXCEPT !.waits = Append(@, continuation)]

Told(op, arg, w, p, q, connected, index, following) ==
    [op |-> op, arg |-> arg, threw |-> w.threw, cmds |-> w.cmds,
     emitted |-> w.emitted, nextCalls |-> w.nextCalls, nextValue |-> w.nextValue,
     connected |-> connected, head |-> At(q.tracks, 0), tracks |-> q.tracks,
     index |-> index, listened |-> p.listeners, before |-> p, qbefore |-> q,
     ints |-> <<>>, ret |-> null,
     earlier |-> IF \/ last.op = "skip" /\ op = "end"
                    \/ last.op \in {"destroy", "settled"} /\ op = "destroy"
                 THEN Earlier(last.following)
                 ELSE noEarlier,
     following |-> following]

CanAwait == Len(pending) < MaxPending

Send(w, name, arg) == [w EXCEPT !.cmds = Append(@, Cmd(name, arg))]
Emit(w, event) == [w EXCEPT !.emitted = Append(@, event)]
Throw(w, message) == [w EXCEPT !.threw = message]

Reasons == {"finished", "stopped", "replaced"}
PlayInputs == {null, "t1", "t2"}
VolumeInputs == {-1, 50, 150, 201}
FilterInputs == {"f1"}
SeekInputs == {1000}

-----------------------------------------------------------------------------
(* KazagumoPlayer (part_004), which owns a KazagumoQueue (part_003) *)

\* the state the constructor leaves: initialize() is waiting for the join
newPlayer_p004 ==
    [shoukaku |-> FALSE, joining |-> TRUE, isConnected |-> FALSE,
     currentTrack |-> null, position |-> 0, playing |-> FALSE, paused |-> FALSE,
     volume |-> defaultVolume, positionInterval |-> FALSE, filters |-> "",
     listeners |-> TRUE, destroyed |-> FALSE]

\* the constructor given options.volume (0: the option is absent or 0)
constructor_p004(volume) ==
    [newPlayer_p004 EXCEPT !.volume = IF volume # 0 THEN volume ELSE defaultVolume]

notConnected_p004(w) == ~w.player.shoukaku \/ ~w.player.isConnected

\* initialize() after its await: the join resolved or was rejected
initialize_p004(w, joined) ==
    IF joined
    THEN [w EXCEPT !.player.joining = FALSE, !.player.shoukaku = TRUE,
                   !.player.isConnected = TRUE, !.player.positionInterval = TRUE]
    ELSE Emit([w EXCEPT !.player.joining = FALSE], "error")

play_p004(w, track) ==
    IF notConnected_p004(w) THEN Throw(w, "Player is not connected")
    ELSE LET trackToPlay == IF track # null THEN track ELSE w.queue.current
         IN  IF trackToPlay = null THEN Throw(w, "No track to play")
             ELSE Send([w EXCEPT !.player.currentTrack = trackToPlay],
                       "playTrack", trackToPlay)

pause_p004(w, pause) ==
    IF notConnected_p004(w) THEN Throw(w, "Player is not connected")
    ELSE Send([w EXCEPT !.player.paused = pause], "setPaused", ToString(pause))

stop_p004(w) ==
    IF notConnected_p004(w) THEN Throw(w, "Player is not connected")
    ELSE Send([w EXCEPT !.player.playing = FALSE, !.player.paused = FALSE,
                        !.player.position = 0, !.player.currentTrack = null],
              "stopTrack", "")

\* queue.next() as the player calls it
queueNext_p004(w) ==
    LET r == next_p003(w.queue)
    IN  [w EXCEPT !.queue = r.queue, !.nextCalls = @ + 1, !.nextValue = r.value]

\* a next() that advances the queue and never hands the track to play()
next_p004_notPlayed(w) ==
    LET advanced == queueNext_p004(w)
    IN  IF advanced.nextValue # null THEN advanced
        ELSE Emit(advanced, "queueEnd")

next_p004(w) ==
    LET advanced == queueNext_p004(w)
    IN  IF advanced.nextValue # null
        THEN LET played == play_p004(advanced, advanced.nextValue)
             IN  IF played.threw # "" THEN Emit(Throw(played, ""), "error")
                 ELSE played
        ELSE Emit(advanced, "queueEnd")

\* stopped: whether the node accepted the stop, after which queueEnd is emitted
skip_p004(w, stopped) ==
    IF notConnected_p004(w) THEN Throw(w, "Player is not connected")
    ELSE LET advanced == queueNext_p004(w)
         IN  IF advanced.nextValue # null THEN play_p004(advanced, advanced.nextValue)
             ELSE IF stopped THEN Emit(stop_p004(advanced), "queueEnd")
             ELSE Throw(stop_p004(advanced), "stopTrack rejected")

setVolume_p004(w, volume) ==
    IF notConnected_p004(w) THEN Throw(w, "Player is not connected")
    ELSE LET clamped == Max(0, Min(maxVolume_p004, volume))
         IN  Send([w EXCEPT !.player.volume = clamped], "setGlobalVolume", ToString(clamped))

onStart_p004(w) ==
    Emit([w EXCEPT !.player.playing = TRUE, !.player.paused = FALSE], "trackStart")

onEnd_p004(w, reason) ==
    LET ended == Emit([w EXCEPT !.player.playing = FALSE, !.player.paused = FALSE,
                                !.player.position = 0, !.player.currentTrack = null],
                      "trackEnd")
    IN  IF reason # "replaced" THEN next_p004(ended) ELSE ended

onClosed_p004(w) == Emit([w EXCEPT !.player.isConnected = FALSE], "playerClosed")

setFilters_p004(w, filters) ==
    IF notConnected_p004(w) THEN Throw(w, "Player is not connected")
    ELSE Send([w EXCEPT !.player.filters = filters], "setFilters", filters)

seek_p004(w, position) ==
    IF notConnected_p004(w) THEN Throw(w, "Player is not connected")
    ELSE Send([w EXCEPT !.player.position = position], "seekTo", ToString(position))

stopPositionTracking_p004(w) == [w EXCEPT !.player.positionInterval = FALSE]

\* destroy() after its try block, run whether stopTrack resolved or was rejected;
\* destroyed records that destroy() has returned
destroyRest_p004(w) ==
    LET cleared == Emit([w EXCEPT !.player.isConnected = FALSE, !.player.playing = FALSE,
                                  !.player.paused = FALSE, !.player.currentTrack = null,
                                  !.queue = clear_p003(w.queue)],
                        "playerDestroy")
    IN  [cleared EXCEPT !.player.listeners = FALSE, !.player.destroyed = TRUE]

destroy_p004(w) ==
    LET stopped == stopPositionTracking_p004(w)
    IN  IF ~notConnected_p004(stopped)
        THEN Await(Send(stopped, "stopTrack", ""), "destroy")
        ELSE destroyRest_p004(stopped)

\* moveVoiceChannel() up to the await inside the destroy() it calls
moveVoiceChannel_p004(w, channelId) ==
    IF notConnected_p004(w) THEN Throw(w, "Player is not connected")
    ELSE [destroy_p004(w) EXCEPT !.waits = <<"moveDestroy">>]

\* the rest of destroy() or moveVoiceChannel() after the node call it awaited
resumeAfter_p004(w, continuation, resolved) ==
    IF continuation = "destroy" THEN destroyRest_p004(w)
    ELSE IF continuation = "moveDestroy"
         THEN Await(Send(destroyRest_p004(w), "joinVoiceChannel", ""), "moveJoin")
    ELSE IF resolved
         THEN [w EXCEPT !.player.shoukaku = TRUE, !.player.isConnected = TRUE]
    ELSE Throw(w, "joinVoiceChannel rejected")

Here_p004 == World(player_p004, queue_p003)

StepOf_p004(op, arg, w, waiting) ==
    /\ player_p004' = w.player
    /\ queue_p003' = w.queue
    /\ pending' = waiting \o w.waits
    /\ last' = Told(op, arg, w, player_p004, queue_p003,
                    player_p004.shoukaku /\ player_p004.isConnected,
                    queue_p003.currentIndex,
                    At(queue_p003.tracks, queue_p003.currentIndex + 1))
    /\ qhist' = staleHist
    /\ impl' = "p003"
    /\ nops' = nops + 1
    /\ UNCHANGED <<searchVars, queue, player>>

StepFrom_p004(op, arg, w, waiting) ==
    StepOf_p004(op, arg, w, waiting) /\ UNCHANGED managerVars

Step_p004(op, arg, w) == StepFrom_p004(op, arg, w, pending)

\* the listeners are registered once the join has resolved
listening_p004 == player_p004.shoukaku

playerInitialize_p004 ==
    /\ CanUse("p003") /\ player_p004.joining
    /\ \E joined \in BOOLEAN :
          Step_p004("initialize", ToString(joined), initialize_p004(Here_p004, joined))

playerPlay_p004 ==
    /\ CanUse("p003")
    /\ \E track \in PlayInputs : Step_p004("play", track, play_p004(Here_p004, track))

playerPause_p004 ==
    /\ CanUse("p003")
    /\ \E pause \in BOOLEAN : Step_p004("pause", ToString(pause), pause_p004(Here_p004, pause))

playerStop_p004 ==
    /\ CanUse("p003")
    /\ Step_p004("stop", "", stop_p004(Here_p004))

playerSkip_p004 ==
    /\ CanUse("p003")
    /\ \E stopped \in BOOLEAN : Step_p004("skip", "", skip_p004(Here_p004, stopped))

playerSetVolume_p004 ==
    /\ CanUse("p003")
    /\ \E volume \in VolumeInputs :
          Step_p004("setVolume", ToString(volume), setVolume_p004(Here_p004, volume))

nodeStart_p004 ==
    /\ CanUse("p003") /\ listening_p004
    /\ Step_p004("start", "", onStart_p004(Here_p004))

nodeEnd_p004 ==
    /\ CanUse("p003") /\ listening_p004
    /\ \E reason \in Reasons : Step_p004("end", reason, onEnd_p004(Here_p004, reason))

nodeClosed_p004 ==
    /\ CanUse("p003") /\ listening_p004
    /\ Step_p004("closed", "", onClosed_p004(Here_p004))

playerSetFilters_p004 ==
    /\ CanUse("p003")
    /\ \E filters \in FilterInputs :
          Step_p004("setFilters", filters, setFilters_p004(Here_p004, filters))

playerSeek_p004 ==
    /\ CanUse("p003")
    /\ \E position \in SeekInputs :
          Step_p004("seek", ToString(position), seek_p004(Here_p004, position))

playerDestroy_p004 ==
    /\ CanUse("p003") /\ CanAwait
    /\ Step_p004("destroy", "", destroy_p004(Here_p004))

playerMoveVoiceChannel_p004 ==
    /\ CanUse("p003") /\ CanAwait
    /\ Step_p004("moveVoiceChannel", "", moveVoiceChannel_p004(Here_p004, ""))

\* the node call a destroy() or moveVoiceChannel() is waiting for settles
awaitSettles_p004 ==
    /\ CanUse("p003")
    /\ \E i \in 1 .. Len(pending), resolved \in BOOLEAN :
          StepFrom_p004("settled", pending[i],
                        resumeAfter_p004(Here_p004, pending[i], resolved),
                        RemoveAt(pending, i - 1))

-----------------------------------------------------------------------------
(* KazagumoPlayer (Managers/KazagumoPlayer.ts), which owns a KazagumoQueue   *)
(* (Managers/KazagumoQueue.ts).  Its methods assign after awaiting the node: *)
(* what follows an await is kept in `pending` until the node call settles.   *)

newPlayer ==
    [current |-> null, position |-> 0, volume |-> defaultVolume,
     paused |-> FALSE, playing |-> FALSE, connected |-> FALSE,
     listeners |-> TRUE, destroyed |-> FALSE]

World_ts(p, q) ==
    [player |-> p, queue |-> q, cmds |-> <<>>, emitted |-> <<>>,
     nextCalls |-> 0, nextValue |-> null, threw |-> "", waits |-> <<>>]

queueGetNext_ts(w) ==
    LET r == getNext(w.queue)
    IN  [w EXCEPT !.queue = r.queue, !.nextCalls = @ + 1, !.nextValue = r.value]

play(w, track) ==
    LET chosen ==
            IF track # null THEN [w EXCEPT !.player.current = track]
            ELSE IF w.player.current = null
                 THEN LET advanced == queueGetNext_ts(w)
                      IN  IF advanced.nextValue = null
                          THEN Throw(advanced, "No track to play")
                          ELSE [advanced EXCEPT !.player.current = advanced.nextValue]
            ELSE w
    IN  IF chosen.threw # "" THEN chosen
        ELSE Await(Send(chosen, "playTrack", chosen.player.current), "play")

stop(w) == Await(Send(w, "stopTrack", ""), "stop")

pause(w) == Await(Send(w, "setPaused", ToString(TRUE)), "pause")

resume(w) == Await(Send(w, "setPaused", ToString(FALSE)), "resume")

skip(w) == Send(w, "stopTrack", "")

setVolume(w, volume) ==
    IF volume < 0 \/ volume > maxVolume THEN Throw(w, "Volume must be between 0 and 200")
    ELSE Await(Send(w, "setGlobalVolume", ToString(volume)), ToString(volume))

connect(w) == [w EXCEPT !.player.connected = TRUE]

seek(w, position) == Await(Send(w, "seekTo", ToString(position)), "seek")

setFilters(w, filters) == Await(Send(w, "setFilters", filters), "setFilters")

destroy(w) == Await(Send(w, "destroy", ""), "destroy")

\* destroy() after its await; destroyed records that destroy() has returned
destroyRest(w) ==
    LET cleared == Emit([w EXCEPT !.player.connected = FALSE, !.player.playing = FALSE,
                                  !.player.current = null, !.queue = clear(w.queue)],
                        "playerDestroy")
    IN  [cleared EXCEPT !.player.listeners = FALSE, !.player.destroyed = TRUE]

\* the rest of a method, run when the node call it awaited has resolved
resumeAfter(w, continuation) ==
    IF continuation = "play" THEN [w EXCEPT !.player.playing = TRUE, !.player.paused = FALSE]
    ELSE IF continuation = "stop"
         THEN [w EXCEPT !.player.playing = FALSE, !.player.position = 0,
                        !.player.current = null]
    ELSE IF continuation = "pause"
         THEN [w EXCEPT !.player.paused = TRUE, !.player.playing = FALSE]
    ELSE IF continuation = "resume"
         THEN [w EXCEPT !.player.paused = FALSE, !.player.playing = TRUE]
    ELSE IF continuation = "seek"
         THEN [w EXCEPT !.player.position = CHOOSE position \in SeekInputs : TRUE]
    ELSE IF continuation = "setFilters" THEN w
    ELSE IF continuation = "destroy" THEN destroyRest(w)
    ELSE [w EXCEPT !.player.volume =
                      CHOOSE v \in VolumeInputs : ToString(v) = continuation]

onStart(w) ==
    Emit([w EXCEPT !.player.playing = TRUE, !.player.paused = FALSE], "trackStart")

onEnd(w, reason) ==
    LET ended == [w EXCEPT !.player.playing = FALSE, !.player.position = 0,
                           !.queue = IF w.player.current # null
                                     THEN addToPrevious(@, w.player.current) ELSE @]
    IN  IF reason = "replaced" THEN Emit(ended, "trackEnd")
        ELSE LET advanced == queueGetNext_ts(ended)
             IN  Emit(IF advanced.nextValue # null
                      THEN play([advanced EXCEPT !.player.current = advanced.nextValue],
                                advanced.nextValue)
                      ELSE Emit([advanced EXCEPT !.player.current = null], "queueEnd"),
                      "trackEnd")

onClosed(w) ==
    Emit([w EXCEPT !.player.playing = FALSE, !.player.connected = FALSE], "playerClosed")

onException(w) == Emit([w EXCEPT !.player.playing = FALSE], "playerException")

onResumed(w) ==
    Emit([w EXCEPT !.player.paused = FALSE, !.player.playing = TRUE], "playerResumed")

Here_ts == World_ts(player, queue)

Step_ts(op, arg, w, waiting) ==
    /\ player' = w.player
    /\ queue' = w.queue
    /\ pending' = waiting \o w.waits
    /\ last' = Told(op, arg, w, player, queue, player.connected, 0, At(queue.tracks, 0))
    /\ qhist' = staleHist
    /\ impl' = "ts"
    /\ nops' = nops + 1
    /\ UNCHANGED <<searchVars, managerVars, queue_p003, player_p004>>


playerConnect ==
    /\ CanUse("ts")
    /\ Step_ts("connect", "", connect(Here_ts), pending)

playerPlay ==
    /\ CanUse("ts") /\ CanAwait
    /\ \E track \in PlayInputs : Step_ts("play", track, play(Here_ts, track), pending)

playerStop ==
    /\ CanUse("ts") /\ CanAwait
    /\ Step_ts("stop", "", stop(Here_ts), pending)

playerPause ==
    /\ CanUse("ts") /\ CanAwait
    /\ Step_ts("pause", "", pause(Here_ts), pending)

playerResume ==
    /\ CanUse("ts") /\ CanAwait
    /\ Step_ts("resume", "", resume(Here_ts), pending)

playerSkip ==
    /\ CanUse("ts")
    /\ Step_ts("skip", "", skip(Here_ts), pending)

playerSetVolume ==
    /\ CanUse("ts") /\ CanAwait
    /\ \E volume \in VolumeInputs :
          Step_ts("setVolume", ToString(volume), setVolume(Here_ts, volume), pending)

\* a node call settles: its method resumes, or ends there if the call was rejected
playerSeek ==
    /\ CanUse("ts") /\ CanAwait
    /\ \E position \in SeekInputs :
          Step_ts("seek", ToString(position), seek(Here_ts, position), pending)

playerSetFilters ==
    /\ CanUse("ts") /\ CanAwait
    /\ \E filters \in FilterInputs :
          Step_ts("setFilters", filters, setFilters(Here_ts, filters), pending)

playerDestroy ==
    /\ CanUse("ts") /\ CanAwait
    /\ Step_ts("destroy", "", destroy(Here_ts), pending)

awaitSettles ==
    /\ CanUse("ts")
    /\ \E i \in 1 .. Len(pending), resolved \in BOOLEAN :
          Step_ts("settled", pending[i],
                  IF resolved THEN resumeAfter(Here_ts, pending[i]) ELSE Here_ts,
                  RemoveAt(pending, i - 1))

nodeStart ==
    /\ CanUse("ts")
    /\ Step_ts("start", "", onStart(Here_ts), pending)

nodeEnd ==
    /\ CanUse("ts") /\ CanAwait
    /\ \E reason \in Reasons : Step_ts("end", reason, onEnd(Here_ts, reason), pending)

nodeClosed ==
    /\ CanUse("ts")
    /\ Step_ts("closed", "", onClosed(Here_ts), pending)

nodeException ==
    /\ CanUse("ts")
    /\ Step_ts("exception", "", onException(Here_ts), pending)

nodeResumed ==
    /\ CanUse("ts")
    /\ Step_ts("resumed", "", onResumed(Here_ts), pending)

-----------------------------------------------------------------------------
(* Kazagumo, the registry of players (Utils/URLParser.ts holds two classes of *)
(* that name; names of the one at line 426 carry the suffix _426)             *)

Guilds == {"g1", "g2"}

\* players: guild -> index into made, 0 for no entry; made: the players
\* constructed so far, each "live", "destroying" (destroy() called and not
\* returned) or "destroyed"; suspended: the destroy() calls awaiting the node
newKazagumo ==
    [cls |-> "", players |-> [g \in Guilds |-> 0], made |-> <<>>, suspended |-> <<>>,
     stats |-> 0, threw |-> "", ret |-> null]

IsClass(c) == kazagumo.cls \in {"", c}
CanCreate == Len(kazagumo.made) < MaxPlayers
CanSuspend == Len(kazagumo.suspended) < MaxSuspended

Returns(k, c, value) == [k EXCEPT !.cls = c, !.ret = value, !.threw = ""]
Throws(k, c, message) == [k EXCEPT !.cls = c, !.ret = null, !.threw = message]

constructPlayer(k, guildId) ==
    [k EXCEPT !.made = Append(@, [guildId |-> guildId, status |-> "live"]),
              !.players[guildId] = Len(k.made) + 1]

createPlayer_k(k, guildId, node) ==
    IF k.players[guildId] # 0
    THEN Throws(k, "710", "Player for guild already exists")
    ELSE IF ~node THEN Throws(k, "710", "No available nodes")
    ELSE Returns(constructPlayer(k, guildId), "710", ToString(Len(k.made) + 1))

\* destroyPlayer() up to its await of player.destroy()
destroyPlayer_k(k, guildId) ==
    LET p == k.players[guildId]
    IN  IF p = 0 THEN Returns(k, "710", ToString(FALSE))
        ELSE [Returns(k, "710", null) EXCEPT
                 !.made[p].status = IF @ = "destroyed" THEN @ ELSE "destroying",
                 !.suspended = Append(@, [guildId |-> guildId, player |-> p])]

\* destroyPlayer() after its await: player.destroy() returned or threw
destroyPlayerRest_k(k, waiting, resolved) ==
    IF resolved
    THEN [Returns(k, "710", ToString(TRUE)) EXCEPT
             !.made[waiting.player].status = "destroyed",
             !.players[waiting.guildId] = 0]
    ELSE [Throws(k, "710", "destroy rejected") EXCEPT
             !.made[waiting.player].status = IF @ = "destroyed" THEN @ ELSE "live"]

createPlayer_426_k(k, guildId) ==
    IF k.players[guildId] # 0 THEN Returns(k, "426", ToString(k.players[guildId]))
    ELSE [Returns(constructPlayer(k, guildId), "426", ToString(Len(k.made) + 1))
             EXCEPT !.stats = @ + 1]

\* destroyPlayer() of the class at line 426 does not await player.destroy();
\* connected: whether that destroy() has a node call to wait for
destroyPlayer_426_k(k, guildId, connected) ==
    LET p == k.players[guildId]
    IN  IF p = 0 THEN Returns(k, "426", ToString(FALSE))
        ELSE [Returns(k, "426", ToString(TRUE)) EXCEPT
                 !.made[p].status = IF connected THEN "destroying" ELSE "destroyed",
                 !.suspended = IF connected
                               THEN Append(@, [guildId |-> guildId, player |-> p])
                               ELSE @,
                 !.players[guildId] = 0,
                 !.stats = @ - 1]

RegistryStep(k) ==
    /\ kazagumo' = k
    /\ UNCHANGED <<searchVars, playbackVars, moved, probe, late, pluginConfig>>

createPlayer ==
    /\ IsClass("710") /\ CanCreate
    /\ \E guildId \in Guilds, node \in BOOLEAN :
          RegistryStep(createPlayer_k(kazagumo, guildId, node))

destroyPlayer ==
    /\ IsClass("710") /\ CanSuspend
    /\ \E guildId \in Guilds : RegistryStep(destroyPlayer_k(kazagumo, guildId))

destroySettles ==
    /\ IsClass("710")
    /\ \E i \in 1 .. Len(kazagumo.suspended), resolved \in BOOLEAN :
          RegistryStep(destroyPlayerRest_k(
              [kazagumo EXCEPT !.suspended = RemoveAt(@, i - 1)],
              kazagumo.suspended[i], resolved))

createPlayer_426 ==
    /\ IsClass("426") /\ CanCreate
    /\ \E guildId \in Guilds : RegistryStep(createPlayer_426_k(kazagumo, guildId))

destroyPlayer_426 ==
    /\ IsClass("426") /\ CanSuspend
    /\ \E guildId \in Guilds, connected \in BOOLEAN :
          RegistryStep(destroyPlayer_426_k(kazagumo, guildId, connected))

\* the destroy() of a player of the class at line 426 returns
destroySettles_426 ==
    /\ IsClass("426")
    /\ \E i \in 1 .. Len(kazagumo.suspended) :
          RegistryStep([kazagumo EXCEPT
              !.suspended = RemoveAt(@, i - 1),
              !.made[kazagumo.suspended[i].player].status = "destroyed"])

-----------------------------------------------------------------------------
(* PlayerMoved, the plugin class of Plugins/PlayerMoved.ts: handlePlayerMoved  *)
(* and the reconnect loop, acting on a KazagumoPlayer of part_004             *)

defaultReconnectDelay == 1000
defaultMaxReconnectAttempts == 3
AttemptInputs == {0, 1, 2, 3}

\* pc: where handlePlayerMoved / attemptReconnect stands ("idle", "handle",
\* "delay", "move", "done").  Of the sequence in flight or last run: attempts,
\* the loop variable; moves, the moveVoiceChannel calls of the loop; waited,
\* the delays awaited; emitted, the events emitted on kazagumo; succeeded;
\* late, the passes of the loop begun after a success or a reconnect-failed.
newPlayerMoved ==
    [config |-> [autoReconnect |-> TRUE, reconnectDelay |-> defaultReconnectDelay,
                 maxReconnectAttempts |-> defaultMaxReconnectAttempts],
     pc |-> "idle", attempts |-> 0, moves |-> 0, waited |-> <<>>, emitted |-> <<>>,
     succeeded |-> FALSE, late |-> 0]

Failures(m) ==
    Cardinality({i \in 1 .. Len(m.emitted) : m.emitted[i] = "playerReconnectFailed"})

\* the while test, and attempts++ at the top of the try block
loopHead(m) ==
    IF m.attempts < m.config.maxReconnectAttempts
    THEN [m EXCEPT !.attempts = @ + 1, !.pc = "delay",
                   !.late = IF m.succeeded \/ Failures(m) > 0 THEN @ + 1 ELSE @]
    ELSE [m EXCEPT !.pc = "done"]

attemptReconnect(m) == loopHead([m EXCEPT !.attempts = 0])

\* a catch block that reports every failed attempt
attemptFailed_everyTime(m) ==
    loopHead([m EXCEPT !.emitted = Append(@, "playerReconnectFailed")])

\* the catch block of the loop
attemptFailed(m) ==
    loopHead(IF m.attempts = m.config.maxReconnectAttempts
             THEN [m EXCEPT !.emitted = Append(@, "playerReconnectFailed")]
             ELSE m)

\* the loop after moveVoiceChannel() has returned; s: the player's world and the
\* plugin; resumed: whether the node accepts the setPaused of pause(false)
attemptReturned(w, m, resumed) ==
    IF w.player.isConnected
    THEN IF w.player.currentTrack # null /\ w.player.paused
         THEN LET unpaused == pause_p004(w, FALSE)
              IN  IF unpaused.threw # "" \/ ~resumed
                  THEN [w |-> Throw(unpaused, ""), m |-> attemptFailed(m)]
                  ELSE [w |-> unpaused, m |-> [m EXCEPT !.succeeded = TRUE, !.pc = "done"]]
         ELSE [w |-> w, m |-> [m EXCEPT !.succeeded = TRUE, !.pc = "done"]]
    ELSE [w |-> w, m |-> loopHead(m)]

\* handlePlayerMoved after its await of moveVoiceChannel(): w.threw says whether
\* that call threw
handleReturned(w, m) ==
    IF w.threw # ""
    THEN IF m.config.autoReconnect THEN attemptReconnect(m) ELSE [m EXCEPT !.pc = "done"]
    ELSE LET told == [m EXCEPT !.emitted = Append(@, "playerMoved")]
         IN  IF told.config.autoReconnect /\ ~w.player.isConnected
             THEN attemptReconnect(told)
             ELSE [told EXCEPT !.pc = "done"]

PluginStep(op, arg, w, waiting, m) ==
    /\ StepOf_p004(op, arg, w, waiting)
    /\ moved' = m
    /\ UNCHANGED <<kazagumo, probe, late, pluginConfig>>

\* updateConfig({maxReconnectAttempts: n}) between two sequences; what is kept
\* of the last sequence is dropped with the configuration it ran under
updateConfig ==
    /\ moved.pc \in {"idle", "done"}
    /\ \E n \in AttemptInputs :
          /\ moved' = [newPlayerMoved EXCEPT
                          !.config = [moved.config EXCEPT !.maxReconnectAttempts = n]]
          /\ UNCHANGED <<searchVars, playbackVars, kazagumo, probe, late, pluginConfig>>

\* the bot's voice state changed channel: handlePlayerMoved runs to its await
handlePlayerMoved ==
    /\ CanUse("p003") /\ CanAwait
    /\ moved.pc \in {"idle", "done"}
    /\ LET w == moveVoiceChannel_p004(Here_p004, "")
           m == [newPlayerMoved EXCEPT !.config = moved.config]
       IN  PluginStep("handlePlayerMoved", "", w, pending,
                      IF w.threw # "" THEN handleReturned(w, m)
                      ELSE [m EXCEPT !.pc = "handle"])

\* this.delay(reconnectDelay) is over: the loop calls moveVoiceChannel()
reconnectDelayElapsed ==
    /\ CanUse("p003") /\ CanAwait
    /\ moved.pc = "delay"
    /\ LET w == moveVoiceChannel_p004(Here_p004, "")
           m == [moved EXCEPT !.waited = Append(@, moved.config.reconnectDelay),
                              !.moves = @ + 1]
       IN  PluginStep("attemptReconnect", ToString(m.attempts), w, pending,
                      IF w.threw # "" THEN attemptFailed(m)
                      ELSE [m EXCEPT !.pc = "move"])

\* a node call of the moveVoiceChannel() the plugin awaits settles; when it was
\* the last one, the plugin resumes
moveSettles ==
    /\ CanUse("p003")
    /\ \E i \in 1 .. Len(pending), resolved \in BOOLEAN, resumed \in BOOLEAN :
          LET w == resumeAfter_p004(Here_p004, pending[i], resolved)
              after == IF pending[i] # "moveJoin" THEN [w |-> w, m |-> moved]
                       ELSE IF moved.pc = "handle"
                       THEN [w |-> w, m |-> handleReturned(w, moved)]
                       ELSE IF w.threw # "" THEN [w |-> w, m |-> attemptFailed(moved)]
                       ELSE attemptReturned(w, moved, resumed)
          IN  PluginStep("settled", pending[i], after.w, RemoveAt(pending, i - 1), after.m)

-----------------------------------------------------------------------------
(* Time *)

\* EnhancedSearchManager.clearCache() and resetStats() of the Managers class,
\* called at any time, also while a search() waits for the node
clearCache_c(s) ==
    [s EXCEPT !.searchCache = EmptyMap, !.searchStats.cacheHits = 0]

resetStats_c(s) ==
    [s EXCEPT !.searchStats = [totalSearches |-> 0, cacheHits |-> 0, errors |-> 0]]

clearCache ==
    /\ Commit(clearCache_c(Here))
    /\ UNCHANGED <<now, call, prev, ncalls, playbackVars, managerVars>>

resetStats ==
    /\ Commit(resetStats_c(Here))
    /\ UNCHANGED <<now, call, prev, ncalls, playbackVars, managerVars>>

Tick ==
    /\ \E d \in {cacheTimeout - 1, cacheTimeout, cacheTimeout + 1} :
          /\ now + d <= MaxTicks * cacheTimeout
          /\ now' = now + d
    /\ UNCHANGED <<searchCache, searchStats, cache, stack, log, delays, out, call, prev, ncalls,
                   playbackVars, managerVars>>

-----------------------------------------------------------------------------
(* Specifications *)

(* PluginConfig (part_001) *)

PluginOptions(enabled, priority, dependencies) ==
    [enabled |-> enabled, priority |-> priority, dependencies |-> dependencies]
Entry(name, config) ==
    [name |-> name, enabled |-> config.enabled, priority |-> config.priority,
     dependencies |-> config.dependencies]

defaultConfig == PluginOptions(TRUE, 10, <<>>)

\* Object.entries(builtinPlugins), in the order written
builtinPlugins ==
    <<Entry("PlayerMoved", PluginOptions(TRUE, 100, <<>>)),
      Entry("AutoLeave", PluginOptions(FALSE, 50, <<>>)),
      Entry("QueueSaver", PluginOptions(FALSE, 30, <<>>)),
      Entry("VolumeNormalizer", PluginOptions(FALSE, 20, <<>>)),
      Entry("CrossFade", PluginOptions(FALSE, 15, <<>>))>>

\* a Partial<PluginConfigOptions>: enabled is "true", "false" or "" (not given),
\* priority 0 is not given, dependencies count when given is TRUE
Partial(enabled, priority, given, dependencies) ==
    [enabled |-> enabled, priority |-> priority, given |-> given,
     dependencies |-> dependencies]

mergeConfig(config, customConfig) ==
    PluginOptions(IF customConfig.enabled # "" THEN customConfig.enabled = "true"
                  ELSE config.enabled,
                  IF customConfig.priority # 0 THEN customConfig.priority
                  ELSE config.priority,
                  IF customConfig.given THEN customConfig.dependencies
                  ELSE config.dependencies)

\* this.plugins: a Map, i.e. the entries in the order their keys were first set
Has(plugins, name) == \E i \in 1..Len(plugins) : plugins[i].name = name
Get(plugins, name) == plugins[CHOOSE i \in 1..Len(plugins) : plugins[i].name = name]
Set(plugins, name, config) ==
    IF Has(plugins, name)
    THEN [i \in 1..Len(plugins) |->
            IF plugins[i].name = name THEN Entry(name, config) ELSE plugins[i]]
    ELSE Append(plugins, Entry(name, config))

\* Array.prototype.sort with (a, b) => b.priority - a.priority: stable
RECURSIVE sortByPriority(_)
sortByPriority(entries) ==
    IF entries = <<>> THEN <<>>
    ELSE LET rest == sortByPriority(Front(entries))
             e == Last(entries)
             before == SelectSeq(rest, LAMBDA x : x.priority >= e.priority)
             after == SelectSeq(rest, LAMBDA x : x.priority < e.priority)
         IN  before \o <<e>> \o after

\* calculateLoadOrder, the closure `visit` and its loop over the dependencies
RECURSIVE visit(_, _, _)
RECURSIVE visitEach(_, _, _)
visit(plugins, st, pluginName) ==
    IF st.threw THEN st
    ELSE IF pluginName \in st.visiting THEN [st EXCEPT !.threw = TRUE]
    ELSE IF pluginName \in st.visited THEN st
    ELSE IF ~Has(plugins, pluginName) \/ ~Get(plugins, pluginName).enabled THEN st
    ELSE LET st1 == [st EXCEPT !.visiting = @ \cup {pluginName}]
             st2 == visitEach(plugins, st1, Get(plugins, pluginName).dependencies)
         IN  IF st2.threw THEN st2
             ELSE [st2 EXCEPT !.visiting = @ \ {pluginName},
                              !.visited = @ \cup {pluginName},
                              !.sorted = Append(@, pluginName)]

visitEach(plugins, st, names) ==
    IF names = <<>> \/ st.threw THEN st
    ELSE visitEach(plugins,
                   IF Has(plugins, Head(names)) THEN visit(plugins, st, Head(names))
                   ELSE st,
                   Tail(names))

calculateLoadOrder_byPriority(plugins) ==
    LET sorted == sortByPriority(SelectSeq(plugins, LAMBDA e : e.enabled))
    IN  [sorted |-> [i \in 1..Len(sorted) |-> sorted[i].name], visited |-> {},
         visiting |-> {}, threw |-> FALSE]

calculateLoadOrder(plugins) ==
    LET enabled == SelectSeq(plugins, LAMBDA e : e.enabled)
        sorted == sortByPriority(enabled)
        enabledPlugins == [i \in 1..Len(sorted) |-> sorted[i].name]
    IN  visitEach(plugins, [sorted |-> <<>>, visited |-> {}, visiting |-> {},
                            threw |-> FALSE],
                  enabledPlugins)

\* the plugins map is set, then calculateLoadOrder assigns this.loadOrder or
\* throws PLUGIN_LOAD_FAILED and leaves it as it was; threw tells how the last
\* calculateLoadOrder ended, errors counts the ones that threw
recalculated(pc, plugins) ==
    LET st == calculateLoadOrder(plugins)
    IN  [plugins |-> plugins,
         loadOrder |-> IF st.threw THEN pc.loadOrder ELSE st.sorted,
         threw |-> st.threw,
         errors |-> IF st.threw THEN pc.errors + 1 ELSE pc.errors,
         calls |-> pc.calls + 1]

\* new PluginConfig(): initializePlugins without a customConfig
newPluginConfig ==
    recalculated([plugins |-> <<>>, loadOrder |-> <<>>, threw |-> FALSE,
                  errors |-> 0, calls |-> 0 - 1],
                 builtinPlugins)

setPluginConfig_c(pc, name, config) ==
    LET existing == IF Has(pc.plugins, name) THEN Get(pc.plugins, name) ELSE defaultConfig
        merged == mergeConfig(existing, config)
    IN  recalculated(pc, Set(pc.plugins, name, merged))

setPluginEnabled_c(pc, name, enabled) ==
    IF Has(pc.plugins, name)
    THEN recalculated(pc, Set(pc.plugins, name,
                              [Get(pc.plugins, name) EXCEPT !.enabled = enabled]))
    ELSE [pc EXCEPT !.calls = @ + 1]

MaxConfigCalls == 3
PluginNames == {"PlayerMoved", "AutoLeave", "A", "B"}
Partials ==
    {Partial("", 0, FALSE, <<>>), Partial("false", 0, FALSE, <<>>),
     Partial("true", 120, FALSE, <<>>)}
    \cup {Partial("", 0, TRUE, d) :
            d \in {<<>>, <<"A">>, <<"B">>, <<"AutoLeave", "B">>, <<"Missing">>}}

ConfigStep(pc) ==
    /\ pluginConfig.calls < MaxConfigCalls
    /\ pluginConfig' = pc
    /\ UNCHANGED <<searchVars, playbackVars, kazagumo, moved, probe, late>>

setPluginConfig ==
    \E name \in PluginNames, config \in Partials :
        ConfigStep(setPluginConfig_c(pluginConfig, name, config))

setPluginEnabled ==
    \E name \in PluginNames \cup {"Missing"}, enabled \in BOOLEAN :
        ConfigStep(setPluginEnabled_c(pluginConfig, name, enabled))

-----------------------------------------------------------------------------
\* the state after construction, the part_004 player given options.volume;
\* probe is left to the specification
InitWith(volume) ==
    /\ now = 0
    /\ searchCache = EmptyMap
    /\ searchStats = [totalSearches |-> 0, cacheHits |-> 0, errors |-> 0]
    /\ cache = EmptyMap
    /\ stack = <<>>
    /\ log = <<>>
    /\ delays = <<>>
    /\ out = Idle
    /\ call = NoCall
    /\ prev = NoSummary
    /\ ncalls = 0
    /\ impl = ""
    /\ queue_p003 = newQueue_p003
    /\ player_p004 = constructor_p004(volume)
    /\ queue = newQueue
    /\ player = newPlayer
    /\ pending = <<>>
    /\ qhist = newHist
    /\ last = noLast
    /\ nops = 0
    /\ kazagumo = newKazagumo
    /\ moved = newPlayerMoved
    /\ late = {}
    /\ pluginConfig = newPluginConfig

noProbe == [fn |-> "", args |-> <<>>, value |-> <<>>]

Init == InitWith(0) /\ probe = noProbe

\* the arguments of a pure function are drawn, the function is yet to be called
InitProbe(fn, inputs) ==
    /\ InitWith(0)
    /\ probe \in {[fn |-> fn, args |-> args, value |-> <<>>] : args \in inputs}

\* the function named by the probe is called: value is what it returns
Called(fn, value) ==
    /\ probe.fn = fn /\ probe.value = <<>>
    /\ probe' = [probe EXCEPT !.value = <<value>>]
    /\ UNCHANGED <<searchVars, playbackVars, kazagumo, moved, late, pluginConfig>>

NextRetry ==
    \/ search(Queries, RetryOptions, Resolvers)
    \/ resolveSettled
    \/ delayElapsed
    \/ search_p002(Queries, RetryOptions, Resolvers)
    \/ searchWithFallback(Queries, RetryOptions, Resolvers)
    \/ resolveSettled_p002
    \/ delayElapsed_p002
    \/ callerResumes(FALSE)

SpecRetry == Init /\ [][NextRetry]_vars

\* CacheOptions asks for one attempt, so part_002's performSearch never waits
\* between attempts here
NextCache ==
    \/ search(Queries, CacheOptions, SteadyResolvers)
    \/ resolveSettled
    \/ delayElapsed
    \/ search_p002(Queries, CacheOptions, SteadyResolvers)
    \/ resolveSettled_p002
    \/ callerResumes(TRUE)
    \/ Tick

SpecCache == Init /\ [][NextCache]_vars

NextQueue ==
    \/ queueAdd_p003
    \/ queueRemove_p003
    \/ queueClear_p003
    \/ queueNext_p003
    \/ queuePrevious_p003
    \/ queueSkipTo_p003
    \/ queueMove_p003
    \/ queueSetRepeat_p003
    \/ queueSetShuffle_p003
    \/ queueAdd
    \/ queueRemove
    \/ queueClear
    \/ queueShuffle
    \/ queueMove
    \/ queueSetRepeat
    \/ queueGetNext
    \/ queueAddToPrevious

SpecQueue == Init /\ [][NextQueue]_vars

\* the part_003 queue alone, with the calls that take indexes
NextIndexes ==
    \/ queueAdd_p003
    \/ queueRemove_p003
    \/ queueNext_p003
    \/ queueMove_p003
    \/ queueSetShuffle_p003

SpecIndexes == Init /\ [][NextIndexes]_vars

NextPlayer ==
    \/ queueAdd_p003
    \/ queueSetRepeat_p003
    \/ playerInitialize_p004
    \/ playerPlay_p004
    \/ playerPause_p004
    \/ playerStop_p004
    \/ playerSkip_p004
    \/ playerSetVolume_p004
    \/ nodeStart_p004
    \/ nodeEnd_p004
    \/ nodeClosed_p004
    \/ queueAdd
    \/ queueSetRepeat
    \/ playerConnect
    \/ playerPlay
    \/ playerStop
    \/ playerPause
    \/ playerResume
    \/ playerSkip
    \/ playerSetVolume
    \/ awaitSettles
    \/ nodeStart
    \/ nodeEnd
    \/ nodeClosed
    \/ nodeException
    \/ nodeResumed

SpecPlayer == Init /\ [][NextPlayer]_vars

\* the players with the whole of their life: destroy, move, seek and filters
NextLifecycle ==
    \/ NextPlayer
    \/ playerSetFilters_p004
    \/ playerSeek_p004
    \/ playerDestroy_p004
    \/ playerMoveVoiceChannel_p004
    \/ awaitSettles_p004
    \/ playerSeek
    \/ playerSetFilters
    \/ playerDestroy

SpecLifecycle == Init /\ [][NextLifecycle]_vars

\* the players and their volume, from construction with any volume option
NextVolume ==
    \/ playerInitialize_p004
    \/ playerSetVolume_p004
    \/ playerPlay_p004
    \/ playerPause_p004
    \/ nodeStart_p004
    \/ nodeClosed_p004
    \/ playerConnect
    \/ playerSetVolume
    \/ playerPlay
    \/ awaitSettles

InitVolume ==
    /\ \E volume \in VolumeInputs \cup {0} : InitWith(volume)
    /\ probe = noProbe

SpecVolume == InitVolume /\ [][NextVolume]_vars

NextRegistry ==
    \/ createPlayer
    \/ destroyPlayer
    \/ destroySettles
    \/ createPlayer_426
    \/ destroyPlayer_426
    \/ destroySettles_426

SpecRegistry == Init /\ [][NextRegistry]_vars

\* a part_004 player and the plugin that reconnects it
NextReconnect ==
    \/ queueAdd_p003
    \/ playerInitialize_p004
    \/ playerPlay_p004
    \/ playerPause_p004
    \/ playerStop_p004
    \/ playerSkip_p004
    \/ nodeStart_p004
    \/ nodeEnd_p004
    \/ nodeClosed_p004
    \/ updateConfig
    \/ handlePlayerMoved
    \/ reconnectDelayElapsed
    \/ moveSettles

SpecReconnect == Init /\ [][NextReconnect]_vars

-----------------------------------------------------------------------------
(* Claims about the search managers *)

Done == out.status \in {"returned", "thrown"}

PrimaryEngine ==
    IF call.cls = "ts" THEN determineSearchEngine(parse(call.query), call.options.source)
    ELSE getSearchEngine_p002(call.query, call.options)

PrimaryQuery ==
    IF call.cls = "ts" THEN formatQuery(call.query, parse(call.query), PrimaryEngine)
    ELSE formatSearchQuery(call.query, PrimaryEngine)

\* the engine a fallbackEngines entry names: a prefix names itself, a platform
\* name names its prefix
EngineNamed(e) == IF e \in DOMAIN engineMap THEN engineMap[e] ELSE e

HasTracks == out.status = "returned" /\ Len(out.result.tracks) > 0

AttemptedBefore(a, b) ==
    \E i, j \in 1..Len(log) : i < j /\ log[i].engine = a /\ log[j].engine = b

C1_Case ==
    /\ Done /\ call.fn = "search" /\ call.node
    /\ ~isURL(call.query)
    /\ Len(call.options.fallbackEngines) = 2
    /\ ~call.resolver.always /\ call.resolver.failures = 0
    /\ PrimaryEngine \notin call.resolver.good
    /\ EngineNamed(call.options.fallbackEngines[1]) \notin call.resolver.good
    /\ EngineNamed(call.options.fallbackEngines[2]) \in call.resolver.good

\* C1: with a primary engine and a first fallback engine A that return no
\* tracks and a second fallback engine B that does, search() tries A, then
\* B, and returns B's tracks, reporting B as the engine.
C1_FallbackOrdering ==
    C1_Case =>
        /\ HasTracks
        /\ out.result.searchEngine = EngineNamed(call.options.fallbackEngines[2])
        /\ AttemptedBefore(EngineNamed(call.options.fallbackEngines[1]),
                           EngineNamed(call.options.fallbackEngines[2]))

C2_Case(kinds) ==
    /\ Done /\ call.fn = "search" /\ call.node
    /\ call.options.retryAttempts = 3
    /\ ~call.resolver.always /\ call.resolver.failures = 2
    /\ call.resolver.fail \in kinds
    /\ engineKey(PrimaryQuery) \in call.resolver.good

RecoverableError ==
    IF out.status = "thrown" THEN out.error.recoverable
    ELSE /\ out.result.type = "error"
         /\ out.result.exception.severity = "common"

\* C3: with retryAttempts = 2, no fallback engines and a resolver that always
\* times out, search() makes exactly 2 resolve calls and ends with a
\* recoverable error.
C3_RetryExhaustion ==
    (/\ Done /\ call.fn = "search" /\ call.node
     /\ call.options.retryAttempts = 2
     /\ call.options.fallbackEngines = <<>>
     /\ call.resolver.always /\ call.resolver.fail = "timeout")
    => ResolveCalls(log) = 2 /\ RecoverableError

Flagged(result) == "fromCache" \in DOMAIN result /\ result.fromCache

SameAsPrev ==
    /\ call.cls = prev.cls /\ call.fn = prev.fn
    /\ call.query = prev.query /\ call.options = prev.options

\* C4: after a caching search() that returned at least one track, the same
\* search() made before the time-to-live is over is a flagged cache hit
\* without a resolve call, and made after it is over resolves afresh.
C4_CacheCorrectness ==
    (/\ Done /\ call.cls = "ts" /\ call.fn = "search" /\ SameAsPrev
     /\ call.options.cacheResults
     /\ prev.status = "returned" /\ prev.ntracks > 0)
    => /\ call.at - prev.at < cacheTimeout
            => out.status = "returned" /\ Flagged(out.result) /\ ResolveCalls(log) = 0
       /\ (call.at - prev.at > cacheTimeout /\ call.node)
            => ResolveCalls(log) >= 1

\* C5: search() never throws; when it has no tracks to give it returns a
\* result of type 'error' with no tracks and an exception that carries
\* suggestions.
C5_NeverThrows ==
    (Done /\ call.fn = "search") =>
        /\ out.status = "returned"
        /\ Len(out.result.tracks) = 0 =>
              /\ "type" \in DOMAIN out.result /\ out.result.type = "error"
              /\ Len(out.result.exception.suggestions) > 0


-----------------------------------------------------------------------------
(* Claims about the queues *)

RepeatsQueue ==
    IF impl = "p003" THEN queue_p003.repeat = 2 ELSE queue.repeatMode = "QUEUE"

\* C6: on a queue freshly filled with t1..tn and set to repeat the queue,
\* the i-th next() returns t((i-1) mod n + 1): t1, .., tn and then t1 again.
C6_RepeatQueueWraparound ==
    (/\ impl \in {"p003", "ts"}
     /\ qhist.phase = "stepping" /\ Len(qhist.filled) > 0
     /\ RepeatsQueue)
    => \A i \in 1 .. Len(qhist.nexts) :
          qhist.nexts[i] = qhist.filled[((i - 1) % Len(qhist.filled)) + 1]

\* C7: after add() and remove() calls only, setShuffle(true) followed by
\* setShuffle(false) leaves the queue holding the tracks it held before the
\* two calls, in the same order.
C7_ShuffleRoundTrip ==
    (impl = "p003" /\ qhist.roundTrip) => queue_p003.tracks = qhist.before

-----------------------------------------------------------------------------
(* Claims about the players *)

\* C8: no player is ever both paused and playing.
C8_PausedPlayingExclusive ==
    /\ ~(player_p004.paused /\ player_p004.playing)
    /\ ~(player.paused /\ player.playing)

Sent(name, arg) == \E i \in 1 .. Len(last.cmds) : last.cmds[i] = Cmd(name, arg)
Emitted(event) == \E i \in 1 .. Len(last.emitted) : last.emitted[i] = event

Playing == IF impl = "p003" THEN player_p004.playing ELSE player.playing
Current == IF impl = "p003" THEN player_p004.currentTrack ELSE player.current
QueueTracks == IF impl = "p003" THEN queue_p003.tracks ELSE queue.tracks
QueueIndex == IF impl = "p003" THEN queue_p003.currentIndex ELSE 0

EndHandled ==
    IF last.arg # "replaced"
    THEN /\ last.nextCalls = 1
         /\ last.nextValue # null => Sent("playTrack", last.nextValue)
         /\ last.nextValue = null => Emitted("queueEnd") /\ ~Playing /\ Current = null
    ELSE /\ last.nextCalls = 0
         /\ QueueTracks = last.tracks /\ QueueIndex = last.index

\* C9 as claimed: a 'track ended' event with a reason other than 'replaced'
\* makes the player call queue.next() once and then send play for the track
\* it got, or emit queueEnd and be idle if it got none; with reason 'replaced'
\* the queue is left where it was.
C9_EndAdvancesQueue == last.op = "end" => EndHandled

\* C9 as amended: the same, for a 'track ended' event that reaches a player
\* that is connected.
C9_EndAdvancesQueueConnected == (last.op = "end" /\ last.connected) => EndHandled

C9_Witness ==
    /\ impl = "p003" /\ last.op = "end" /\ last.connected
    /\ last.arg = "finished" /\ last.nextValue # null
    /\ Sent("playTrack", last.nextValue)

\* C10: on a connected player with a non-empty queue, play() without an
\* argument makes the head of the queue the current track and sends play for
\* it; play() throws 'No track to play' only without an argument and with an
\* empty queue.
C10_PlayTakesQueueHead ==
    last.op = "play" =>
        /\ (last.arg = null /\ last.connected /\ last.head # null)
              => /\ last.threw = ""
                 /\ Current = last.head
                 /\ Sent("playTrack", last.head)
        /\ last.threw = "No track to play" => last.arg = null /\ last.head = null


-----------------------------------------------------------------------------
(* The life of a player *)

\* the step before the last one was a destroy() that returned: one that had no
\* node call to wait for, or the settling of the node call it waited for
DestroyReturned(step) ==
    \/ step.op = "destroy" /\ step.cmds = <<>>
    \/ step.op = "settled" /\ step.arg = "destroy"

\* the last step called destroy() right after an earlier destroy() had returned
DestroyedAgain ==
    last.op = "destroy" /\ DestroyReturned(last.earlier) /\ last.before.destroyed

\* the events of the last step that reached a listener
Delivered == IF last.listened THEN last.emitted ELSE <<>>

PlayerNow == IF impl = "ts" THEN player ELSE player_p004
QueueNow == IF impl = "ts" THEN queue ELSE queue_p003

\* C11: a destroy() called right after a destroy() has returned throws nothing,
\* sends no command to the node, delivers no event to a listener and leaves the
\* player and its queue as they were.
C11_DestroyIdempotent ==
    DestroyedAgain =>
        /\ last.threw = ""
        /\ last.cmds = <<>>
        /\ Delivered = <<>>
        /\ PlayerNow = last.before
        /\ QueueNow = last.qbefore

Destroyed == IF impl = "ts" THEN player.destroyed ELSE player_p004.destroyed
Connected == IF impl = "ts" THEN player.connected ELSE player_p004.isConnected

\* C12: once destroy() has returned, the position tracking timer of the player
\* is not active, whatever a pending initialize() does afterwards.
C12_NoTimerAfterDestroy ==
    player_p004.destroyed => ~player_p004.positionInterval

\* C13: once destroy() has returned, nothing makes the player connected or
\* playing again.
C13_DestroyedIsTerminal ==
    Destroyed => ~Connected /\ ~Playing

-----------------------------------------------------------------------------
(* The registry *)

\* the players of a guild on which destroy() has not been called
LivePlayers(g) ==
    {i \in 1 .. Len(kazagumo.made) :
        kazagumo.made[i].guildId = g /\ kazagumo.made[i].status = "live"}

\* C14: whatever the interleaving of createPlayer and destroyPlayer calls, a
\* guild has at most one player that is not being or has not been destroyed,
\* and the registry maps the guild to that player.
C14_OnePlayerPerGuild ==
    \A g \in Guilds :
        /\ Cardinality(LivePlayers(g)) <= 1
        /\ \A i \in LivePlayers(g) : kazagumo.players[g] = i

-----------------------------------------------------------------------------
(* Expiry of cache entries *)

\* the cache, the key and the time-to-live of the lookup the call made
LookedUpCache == IF call.cls = "ts" THEN searchCache ELSE cache
LookedUpKey ==
    IF call.cls = "ts" THEN generateCacheKey(call.query, call.options)
    ELSE getCacheKey(call.query, call.options)
LookedUpTtl ==
    IF call.cls = "ts" THEN cacheTimeout ELSE LookedUpCache[LookedUpKey].ttl

\* the entry under the key of the call was past its time-to-live at the lookup
ExpiredAtLookup ==
    /\ LookedUpKey \in DOMAIN LookedUpCache
    /\ call.at > LookedUpCache[LookedUpKey].timestamp + LookedUpTtl

\* the call was answered with tracks and without a resolve call: from the cache
AnsweredFromCache ==
    /\ out.status = "returned" /\ Len(out.result.tracks) > 0
    /\ ResolveCalls(log) = 0

\* C15: a search() that looks its key up in the cache is never answered with an
\* entry older than its time-to-live, and an entry that was older than its
\* time-to-live at the lookup is no longer in the cache after it.
C15_LazyExpiry ==
    (call.fn = "search" /\ call.options.cacheResults)
    => /\ ~ExpiredAtLookup
       /\ AnsweredFromCache => LookedUpKey \in DOMAIN LookedUpCache

-----------------------------------------------------------------------------
(* Operations on a player that is not connected *)

NodeOperations ==
    {"play", "pause", "stop", "skip", "seek", "setVolume", "setFilters", "moveVoiceChannel"}

\* C16: an operation that needs the node, called on a player that is not
\* connected, throws, sends no command to the node and leaves the player and
\* its queue as they were.
C16_RefusedWhenNotConnected ==
    (last.op \in NodeOperations /\ ~last.connected)
    => /\ last.threw # ""
       /\ last.cmds = <<>>
       /\ PlayerNow = last.before
       /\ QueueNow = last.qbefore

-----------------------------------------------------------------------------
(* skip() *)

\* the reason of the 'end' event the node emits for what skip() sent it
ReasonAfter(cmds) ==
    IF \E i \in 1 .. Len(cmds) : cmds[i].cmd = "playTrack" THEN "replaced" ELSE "stopped"

RepeatOff == IF impl = "ts" THEN queue.repeatMode = "NONE" ELSE queue_p003.repeat = 0

\* the last step handled the 'end' event that the skip() before it caused, and
\* the queue held a following track when skip() was called
SkippedAndEnded ==
    /\ last.op = "end" /\ last.earlier.op = "skip"
    /\ last.earlier.cmds # <<>>
    /\ last.arg = ReasonAfter(last.earlier.cmds)
    /\ last.earlier.following # null
    /\ RepeatOff

\* C17: after skip() on a player with a following track, and once the 'end'
\* event it causes has been handled, the queue has been advanced exactly once
\* and the current track is the one that followed.
C17_SkipAdvancesByOne ==
    SkippedAndEnded =>
        /\ last.earlier.nextCalls + last.nextCalls = 1
        /\ Current = last.earlier.following

-----------------------------------------------------------------------------
(* The reconnect sequence *)

SequenceOver == moved.pc = "done"

-----------------------------------------------------------------------------
(* Indexes out of range *)

OutOfRange(index, tracks) == index < 0 \/ index > Len(tracks) - 1

\* the last step called remove() or move() of the part_003 queue with an index
\* outside 0 .. length-1
OutOfRangeCall ==
    /\ impl = "p003" /\ last.op \in {"remove", "move"}
    /\ \E k \in 1 .. Len(last.ints) : OutOfRange(last.ints[k], last.qbefore.tracks)

\* C19: remove() with an index out of range returns null and move() with an
\* index out of range returns false; neither throws, and the tracks, the
\* original order and the current position stay as they were.
C19_BoundsSafety ==
    OutOfRangeCall =>
        /\ last.threw = ""
        /\ last.ret = IF last.op = "remove" THEN null ELSE ToString(FALSE)
        /\ queue_p003.tracks = last.qbefore.tracks
        /\ queue_p003.originalOrder = last.qbefore.originalOrder
        /\ queue_p003.currentIndex = last.qbefore.currentIndex

\* remove(-1) was called on a queue that holds tracks
C19_Witness ==
    /\ OutOfRangeCall /\ last.op = "remove"
    /\ last.ints = <<-1>> /\ Len(last.qbefore.tracks) >= 2

-----------------------------------------------------------------------------
(* Volume *)

\* C20: the volume of a player is within 0..100 in every state, whatever volume
\* its constructor or setVolume() was given.
C20_VolumeInRange ==
    /\ player_p004.volume \in 0 .. maxVolume_p004
    /\ player.volume \in 0 .. maxVolume_p004

-----------------------------------------------------------------------------
(* Repeat mode 'track' *)

RepeatedTrack ==
    IF impl = "ts" THEN last.qbefore.repeatMode = "TRACK" ELSE last.qbefore.repeat = 1

PlayedBefore == IF impl = "ts" THEN last.before.current ELSE last.before.currentTrack

\* the last step handled a 'track ended' that asks the queue for the next
\* track, with repeat mode 'track', a track playing and tracks in the queue
EndedWhileRepeatingTrack ==
    /\ last.op = "end" /\ last.arg # "replaced" /\ last.nextCalls = 1
    /\ RepeatedTrack
    /\ PlayedBefore # null
    /\ last.tracks # <<>>

\* C21: with repeat mode 'track', next() returns the track that is playing and
\* consumes nothing: the tracks of the queue and its position stay as they were.
C21_RepeatTrackReplays ==
    EndedWhileRepeatingTrack =>
        /\ last.nextValue = PlayedBefore
        /\ QueueTracks = last.tracks
        /\ QueueIndex = last.index


(* ------------------------------------------------------------------ *)
(* The cache key of a search                                           *)
(* ------------------------------------------------------------------ *)

\* the same keys, written by the caller in the opposite order
KeysReversed ==
    <<"requester", "cacheResults", "fallbackEngines", "retryAttempts", "limit", "source">>
KeyOrders == {KeysAsWritten, KeysReversed}

KeyOptions ==
    {Opt(s, l, r, <<>>, TRUE) : s \in {"", "deezer"}, l \in {0, 5}, r \in {0, 2}}

\* two calls: the query, and for each call the options and the order of their keys
KeyInputs ==
    {<<q, o1, k1, o2, k2>> : q \in Queries, o1 \in KeyOptions, k1 \in KeyOrders,
                             o2 \in KeyOptions, k2 \in KeyOrders}

\* part_002: `${query}_${JSON.stringify(options)}`, of an object with the given keys
getCacheKeyOf(query, options, keys) == query \o <<"_">> \o stringifyKeys(options, keys)

generateCacheKeyCalled ==
    Called("generateCacheKey",
           <<generateCacheKey(probe.args[1], probe.args[2]),
             generateCacheKey(probe.args[1], probe.args[4])>>)

getCacheKeyCalled ==
    Called("getCacheKey",
           <<getCacheKeyOf(probe.args[1], probe.args[2], probe.args[3]),
             getCacheKeyOf(probe.args[1], probe.args[4], probe.args[5])>>)

InitKeys ==
    \E fn \in {"generateCacheKey", "getCacheKey"} : InitProbe(fn, KeyInputs)
NextKeys == generateCacheKeyCalled \/ getCacheKeyCalled
SpecKeys == InitKeys /\ [][NextKeys]_vars

KeysComputed ==
    /\ probe.fn \in {"generateCacheKey", "getCacheKey"}
    /\ probe.value # <<>>
SameSourceAndLimit ==
    /\ probe.args[2].source = probe.args[4].source
    /\ probe.args[2].limit = probe.args[4].limit

\* C22: the cache key depends only on the query text, the explicit source and
\* the limit: two searches for the same query whose options have the same
\* source and limit, whatever the order of their keys and whatever their other
\* fields, have the same cache key.
C22_KeyOfQuerySourceLimit ==
    (KeysComputed /\ SameSourceAndLimit) =>
        probe.value[1][1] = probe.value[1][2]


(* ------------------------------------------------------------------ *)
(* The engine a search uses                                            *)
(* ------------------------------------------------------------------ *)

OtherUrl == <<"https://", "example.com", "/", "a.mp3">>
EngineQueries == Queries \cup {OtherUrl}
EngineSources == {""} \cup DOMAIN engineMap \cup platformPrefixes
EngineInputs == {<<q, s>> : q \in EngineQueries, s \in EngineSources}

\* performSearch of the Managers class: the engine of the query and options.source
determineSearchEngineCalled ==
    Called("determineSearchEngine",
           determineSearchEngine(parse(probe.args[1]), probe.args[2]))

\* performSearch of part_002: the engine of the query and the options
getSearchEngineCalled ==
    Called("getSearchEngine",
           getSearchEngine_p002(probe.args[1],
                                Opt(probe.args[2], 0, 0, <<>>, TRUE)))

InitEngines ==
    \E fn \in {"determineSearchEngine", "getSearchEngine"} : InitProbe(fn, EngineInputs)
NextEngines == determineSearchEngineCalled \/ getSearchEngineCalled
SpecEngines == InitEngines /\ [][NextEngines]_vars

EngineComputed ==
    /\ probe.fn \in {"determineSearchEngine", "getSearchEngine"}
    /\ probe.value # <<>>
SourceGiven == probe.args[2]
QueryGiven == probe.args[1]

\* C23: the engine of a search is options.source when it is given (a supported
\* engine prefix such as 'spsearch' is used as it is); without a source it is
\* the engine of the platform a valid URL was detected to belong to; otherwise
\* it is the configured default engine.
C23_EngineSelection ==
    EngineComputed =>
        /\ SourceGiven \in platformPrefixes => probe.value[1] = SourceGiven
        /\ (SourceGiven = "" /\ parse(QueryGiven).isValidUrl) =>
               probe.value[1] = getSearchEngine(parse(QueryGiven).platform)
        /\ (SourceGiven = "" /\ ~parse(QueryGiven).isValidUrl) =>
               probe.value[1] = defaultSearchEngine


(* ------------------------------------------------------------------ *)
(* The number of tracks of a result                                    *)
(* ------------------------------------------------------------------ *)

MaxUpstream == 12
LimitInputs == {0, 1, 2, 3, 10, 11}

\* what the node answers: a list of n tracks
Upstream(n) ==
    [kind |-> "result", loadType |-> "SEARCH_RESULT",
     tracks |-> [i \in 1..n |-> "e" \o ToString(i)]]
LimitCalls == {<<Upstream(n), l>> : n \in 0..MaxUpstream, l \in LimitInputs}

\* the Managers class: performSearch with the node's answer and options.limit
performSearchCalled ==
    Called("performSearch",
           LET r == performSearch(probe.args[1], Opt("", probe.args[2], 0, <<>>, TRUE))
           IN  IF r.ok THEN [ok |-> TRUE, tracks |-> r.result.tracks]
               ELSE [ok |-> FALSE, tracks |-> <<>>])

\* part_002: processSearchResult with the node's answer and options.limit
processSearchResultCalled ==
    Called("processSearchResult",
           [ok |-> TRUE,
            tracks |-> processSearchResult(probe.args[1],
                                           Opt("", probe.args[2], 0, <<>>, TRUE)).tracks])

InitLimit ==
    \E fn \in {"performSearch", "processSearchResult"} : InitProbe(fn, LimitCalls)
NextLimit == performSearchCalled \/ processSearchResultCalled
SpecLimit == InitLimit /\ [][NextLimit]_vars

ResultProcessed ==
    /\ probe.fn \in {"performSearch", "processSearchResult"}
    /\ probe.value # <<>>
    /\ probe.value[1].ok
LimitAsked == IF probe.args[2] # 0 THEN probe.args[2] ELSE 10

\* C24: a result has at most `limit` tracks, 10 when no limit was given: they
\* are the first `limit` tracks of the list the node answered with.
C24_AtMostLimitTracks ==
    ResultProcessed =>
        LET got == probe.value[1].tracks
            sent == probe.args[1].tracks
        IN  /\ Len(got) <= LimitAsked
            /\ Len(got) <= Len(sent)
            /\ \A i \in 1..Len(got) : got[i].encoded = sent[i]


(* ------------------------------------------------------------------ *)
(* The classification of an input                                      *)
(* ------------------------------------------------------------------ *)

Url(scheme, host, segments) ==
    <<scheme, host>> \o [i \in 1..(2 * Len(segments)) |->
                           IF i % 2 = 1 THEN "/" ELSE segments[i \div 2]]

\* track URLs of the platforms of the static class, by platform
TrackUrls ==
    [spotify |-> {Url(s, "open.spotify.com", <<"track", "4iV5W9uYEdYUVa79Axb7Rh">>) :
                     s \in Schemes},
     applemusic |-> {Url(s, "music.apple.com", <<"us", "song", "name", "123">>) :
                        s \in Schemes},
     youtube |-> {<<s, "www.youtube.com", "/", "watch?v=", "dQw4w9WgXcQ">> : s \in Schemes}
                 \cup {Url(s, "youtu.be", <<"dQw4w9WgXcQ">>) : s \in Schemes},
     youtubeMusic |-> {<<s, "music.youtube.com", "/", "watch?v=", "dQw4w9WgXcQ">> :
                          s \in Schemes},
     soundcloud |-> {Url(s, "soundcloud.com", <<"user1", "my-song">>) : s \in Schemes},
     deezer |-> {Url(s, "www.deezer.com", <<"track", "123">>) : s \in Schemes},
     tidal |-> {Url(s, "tidal.com", <<"browse", "track", "123">>) : s \in Schemes},
     qobuz |-> {Url(s, "www.qobuz.com", <<"track", "name", "123">>) : s \in Schemes},
     bandcamp |-> {Url(s, "user1.bandcamp.com", <<"track", "my-song">>) : s \in Schemes},
     jiosaavn |-> {Url(s, "www.jiosaavn.com", <<"song", "name", "4iV5W9uYEdYUVa79Axb7Rh">>) :
                      s \in Schemes}]

\* track URLs of the platforms of the instance class, by platform
TrackUrls_u ==
    [youtube |-> TrackUrls.youtube,
     youtubeMusic |-> TrackUrls.youtubeMusic,
     spotify |-> TrackUrls.spotify
                 \cup {<<"spotify", ":", "track", ":", "4iV5W9uYEdYUVa79Axb7Rh">>},
     appleMusic |-> TrackUrls.applemusic,
     deezer |-> TrackUrls.deezer,
     soundcloud |-> TrackUrls.soundcloud,
     jiosaavn |-> TrackUrls.jiosaavn,
     qobuz |-> {Url(s, "www.qobuz.com", <<"track", "123">>) : s \in Schemes},
     tidal |-> TrackUrls.tidal,
     bandcamp |-> TrackUrls.bandcamp]

OtherUrls ==
    {Url(s, "open.spotify.com", <<"album", "4iV5W9uYEdYUVa79Axb7Rh">>) : s \in Schemes}
    \cup {Url(s, "www.deezer.com", <<"album", "123">>) : s \in Schemes}
    \cup {Url(s, "youtu.be", <<"album">>) : s \in Schemes}
    \cup {OtherUrl}

\* inputs that `new URL` does not parse
NotUrls ==
    {TextQuery, <<"www.youtube.com", "/", "watch?v=", "dQw4w9WgXcQ">>,
     <<"open.spotify.com", "/", "track", "/", "4iV5W9uYEdYUVa79Axb7Rh">>}

ClassifyInputs ==
    UNION {TrackUrls[p] : p \in DOMAIN TrackUrls}
    \cup UNION {TrackUrls_u[p] : p \in DOMAIN TrackUrls_u}
    \cup OtherUrls \cup NotUrls

\* URLParser.parse of the static class
parseCalled ==
    Called("parse",
           LET r == parse(probe.args[1])
           IN  [platform |-> r.platform, type |-> r.type, isValidUrl |-> r.isValidUrl])

\* parseURL of the instance class
parseURLCalled ==
    Called("parseURL",
           LET r == parseURL_u(probe.args[1])
           IN  [platform |-> r.platform, type |-> r.type, isValidUrl |-> r.isValid])

InitClassify ==
    \E fn \in {"parse", "parseURL"} :
        InitProbe(fn, {<<input>> : input \in ClassifyInputs})
NextClassify == parseCalled \/ parseURLCalled
SpecClassify == InitClassify /\ [][NextClassify]_vars

Classified == probe.fn \in {"parse", "parseURL"} /\ probe.value # <<>>
TrackUrlsOfClass == IF probe.fn = "parse" THEN TrackUrls ELSE TrackUrls_u

\* C25: an input that is a track URL of a known platform is classified as
\* that platform with content type 'track'; an input that is not a
\* syntactically valid URL is classified as not a valid URL, platform 'generic'.
C25_Classifier ==
    Classified =>
        /\ \A p \in DOMAIN TrackUrlsOfClass :
               probe.args[1] \in TrackUrlsOfClass[p] =>
                   probe.value[1].platform = p /\ probe.value[1].type = "track"
        /\ ~isURL(probe.args[1]) =>
               /\ ~probe.value[1].isValidUrl
               /\ probe.value[1].platform = "generic"


(* ------------------------------------------------------------------ *)
(* Failures that are not retried                                       *)
(* ------------------------------------------------------------------ *)

\* upstream failures other than a timeout: a rejected call (a malformed URL,
\* say), a failed load, no result
NonRetryableKinds == FailKinds \ {"timeout"}

\* every resolve call of the search fails, and never by a timeout
FailsForGood ==
    /\ call.fn = "search" /\ call.node
    /\ call.resolver.always /\ call.resolver.fail \in NonRetryableKinds

\* C26: an upstream failure that is not retryable ends the attempt on its
\* engine at once: when every resolve call fails that way, no backoff delay is
\* ever waited for and no engine gets a second resolve call, so there is at
\* most one call for the primary engine and one for each fallback engine.
C26_NonRetryableAborts ==
    FailsForGood =>
        /\ delays = <<>>
        /\ ResolveCalls(log) <= 1 + Len(call.options.fallbackEngines)


(* ------------------------------------------------------------------ *)
(* The walk through the fallback engines                               *)
(* ------------------------------------------------------------------ *)

\* the resolve calls made so far with the engine e
CallsOf(e) == Len(SelectSeq(log, LAMBDA a : a.kind # "noNode" /\ a.engine = e))

\* the engines that are tried as fallback engines only
FallbackOnly(e) == call.fn = "searchWithFallback" \/ e # PrimaryEngine

\* C27: in the walk through the fallback engines every fallback engine is
\* tried once: it gets at most one resolve call, also when that call times
\* out, and the attempt on a fallback engine starts no walk of its own.
C27_FallbackTriedOnce ==
    call.fn # "" =>
        /\ \A i \in 1..Len(log) :
               FallbackOnly(log[i].engine) => CallsOf(log[i].engine) <= 1
        /\ Len(stack) <= 2


FirstFallback == call.options.fallbackEngines[1]

\* a free-text search of the Managers class whose one call for the primary
\* engine fails for good, with a supported prefix as the first fallback entry
FallsBackToPrefix ==
    /\ Done /\ call.cls = "ts" /\ call.fn = "search" /\ call.node
    /\ ~isURL(call.query)
    /\ call.options.fallbackEngines # <<>>
    /\ FirstFallback \in platformPrefixes
    /\ ~call.resolver.always /\ call.resolver.failures = 1
    /\ call.resolver.fail \in NonRetryableKinds

\* C28: the attempt on a fallback entry E that is a supported prefix sends
\* 'E:<query>' upstream for a free-text query, and the result of that attempt
\* reports E as its engine.
C28_FallbackUsesNamedEngine ==
    FallsBackToPrefix =>
        /\ Len(log) >= 2
        /\ log[2].engine = FirstFallback
        /\ log[2].query = <<FirstFallback, ":">> \o call.query
        /\ HasTracks => out.result.searchEngine = FirstFallback


(* ------------------------------------------------------------------ *)
(* What the cache holds                                                *)
(* ------------------------------------------------------------------ *)

EntriesHaveTracks ==
    /\ \A k \in DOMAIN searchCache : Len(searchCache[k].result.tracks) >= 1
    /\ \A k \in DOMAIN cache : Len(cache[k].result.tracks) >= 1

Uncached == call.fn = "search" /\ ~call.options.cacheResults

\* a search with cacheResults = false is answered by the node, not the cache
AnsweredUpstream ==
    (Done /\ Uncached /\ call.node) =>
        /\ ResolveCalls(log) >= 1
        /\ out.status = "returned" => ~Flagged(out.result)

\* no step of a search with cacheResults = false changes a cache
CachesKept == Uncached' => UNCHANGED <<searchCache, cache>>

\* searches for one text, with and without caching, with and without
\* fallbacks, against nodes that answer every call (no attempt is retried)
StoreOptions ==
    {Opt("", 0, 1, f, c) : f \in {<<>>, <<"spotify", "youtube">>}, c \in BOOLEAN}
StoreResolvers ==
    {Resolver("timeout", 0, FALSE, g) : g \in {{}, {"ytsearch"}, {"spsearch"}}}

NextStore ==
    \/ search({TextQuery}, StoreOptions, StoreResolvers)
    \/ resolveSettled
    \/ search_p002({TextQuery}, StoreOptions, StoreResolvers)
    \/ resolveSettled_p002
    \/ callerResumes(TRUE)
    \/ Tick

SpecStore == Init /\ [][NextStore]_vars

\* C29: a result is written to the cache only when it has at least one track
\* and cacheResults is not false: every cache entry holds a result with at
\* least one track, and a search with cacheResults = false neither reads nor
\* writes the cache.
C29_CacheOnlyTracks ==
    /\ [](EntriesHaveTracks /\ AnsweredUpstream)
    /\ [][CachesKept]_vars

\* a search with cacheResults = false has returned tracks while the cache
\* held an entry for the same query and options
C29_Witness ==
    /\ Done /\ Uncached /\ HasTracks
    /\ \/ call.cls = "ts"
          /\ generateCacheKey(call.query, call.options) \in DOMAIN searchCache
       \/ call.cls = "p002"
          /\ getCacheKey(call.query, [call.options EXCEPT !.cacheResults = TRUE])
                \in DOMAIN cache


(* ------------------------------------------------------------------ *)
(* The race of a resolve call against its timeout timer                *)
(* ------------------------------------------------------------------ *)

\* a resolve call that lost its race: who made it, and what the node answered
\* when it did answer ("" until then)
Abandoned(f) == [cls |-> f.cls, query |-> f.query, options |-> f.options, answer |-> ""]

LateResponses == {R_two, R_empty, R_failed}

\* a race that hands the late answer on as if it had come in time
lateAnswer_taken(s, a, response, t) ==
    IF Len(response.tracks) = 0 THEN s
    ELSE LET result == [type |-> determineResultType(response.loadType),
                        tracks |-> response.tracks]
         IN  IF a.cls = "ts"
             THEN [s EXCEPT !.searchCache = cacheResult(@, a.query, a.options, result, t)]
             ELSE [s EXCEPT !.cache = addToCache(@, getCacheKey(a.query, a.options),
                                                  result, t)]

\* the node answers a resolve call after the timer has settled the race: in
\* the Managers class performSearch goes on and returns or throws to a promise
\* whose race is over, in part_002 nothing runs; the manager is as it was
lateAnswer(s, a, response, t) ==
    LET r == IF a.cls = "ts" THEN performSearch(response, a.options).ok ELSE TRUE
    IN  IF r THEN s ELSE s

\* the timer of withTimeout fires before the node has answered
timerFires ==
    /\ stack # <<>>
    /\ Last(stack).cls = "ts" /\ Last(stack).pc = "resolve"
    /\ LET s == Settle(Here, R_timeout)
           r == performSearch(R_timeout, Last(stack).options)
       IN  Commit(failed(s, r.error, call.node, now))
    /\ late' = late \cup {Abandoned(Last(stack))}
    /\ UNCHANGED <<now, call, prev, ncalls, playbackVars, kazagumo, moved, probe, pluginConfig>>

\* part_002: the timer of the race in performSearch fires first
timerFires_p002 ==
    /\ stack # <<>>
    /\ Last(stack).cls = "p002" /\ Last(stack).pc = "resolve"
    /\ Commit(caught_p002(Settle(Here, R_timeout), call.node, now))
    /\ late' = late \cup {Abandoned(Last(stack))}
    /\ UNCHANGED <<now, call, prev, ncalls, playbackVars, kazagumo, moved, probe, pluginConfig>>

\* the node answers a resolve call that lost its race
lateResponse ==
    /\ \E a \in late, response \in LateResponses :
          /\ a.answer = ""
          /\ Commit(lateAnswer(Here, a, response, now))
          /\ late' = (late \ {a}) \cup {[a EXCEPT !.answer = KindOf(response)]}
    /\ UNCHANGED <<now, call, prev, ncalls, playbackVars, kazagumo, moved, probe, pluginConfig>>

RaceOptions == {Opt("", 0, r, <<>>, TRUE) : r \in {1, 2}}
RaceResolvers == {Resolver("timeout", 0, FALSE, g) : g \in {{}, {"ytsearch"}}}

NextRace ==
    \/ search({TextQuery}, RaceOptions, RaceResolvers)
    \/ resolveSettled
    \/ timerFires
    \/ delayElapsed
    \/ search_p002({TextQuery}, RaceOptions, RaceResolvers)
    \/ resolveSettled_p002
    \/ timerFires_p002
    \/ delayElapsed_p002
    \/ lateResponse
    \/ callerResumes(TRUE)

SpecRace == Init /\ [][NextRace]_vars

TimerStep == \E a \in late' \ late : a.answer = ""
LateStep == late' # late /\ \A a \in late' \ late : a.answer # ""

\* the attempt in flight is not the last one its caller allows
AttemptsLeft ==
    IF Last(stack).cls = "ts"
    THEN Last(stack).attempt < maxRetriesOf(Last(stack).options)
    ELSE Last(stack).attempt < retryAttemptsOf(Last(stack).options)

\* the attempt has failed by a timeout, and is retried after a delay
TimedOut ==
    /\ log'[Len(log)].kind = "timeout"
    /\ AttemptsLeft =>
          /\ Len(delays') = Len(delays) + 1
          /\ stack' # <<>> /\ Last(stack').pc = "delay"

\* C30: when the timer fires before the node has answered, the attempt fails
\* with a timeout, which is retried while attempts are left; the answer the
\* node gives later is ignored: it changes neither the outcome of a search
\* nor a cache.
C30_TimeoutRace ==
    [][/\ TimerStep => TimedOut
       /\ LateStep => UNCHANGED <<searchCache, cache, searchStats, stack, log, delays, out>>
      ]_vars

\* every attempt of a search has timed out, the node has answered one of
\* them with tracks afterwards, and the search has ended without tracks
C30_Witness ==
    /\ Done /\ ~HasTracks
    /\ \A i \in 1..Len(log) : log[i].kind = "timeout"
    /\ \E a \in late : a.answer = "tracks" /\ a.cls = call.cls
    /\ searchCache = << >> /\ cache = << >>

-----------------------------------------------------------------------------
(* C31: the plugin load order *)

InitPlugins == Init
NextPlugins == setPluginConfig \/ setPluginEnabled
SpecPlugins == InitPlugins /\ [][NextPlugins]_vars

Registered(name) == Has(pluginConfig.plugins, name)
Enabled(name) == Registered(name) /\ Get(pluginConfig.plugins, name).enabled
DependsOn(a, b) ==
    /\ Enabled(a) /\ Enabled(b)
    /\ \E i \in 1..Len(Get(pluginConfig.plugins, a).dependencies) :
           Get(pluginConfig.plugins, a).dependencies[i] = b

\* the plugins reached from a along k or fewer dependencies, a itself not counted
RECURSIVE Needs(_, _)
Needs(a, k) ==
    IF k = 0 THEN {}
    ELSE LET direct == {b \in PluginNames : DependsOn(a, b)}
         IN  direct \cup UNION {Needs(b, k - 1) : b \in direct}

DependencyCycle == \E a \in PluginNames : a \in Needs(a, Cardinality(PluginNames))

PositionsOf(name) ==
    {i \in 1..Len(pluginConfig.loadOrder) : pluginConfig.loadOrder[i] = name}

LoadOrderRight ==
    /\ \A name \in PluginNames \cup {builtinPlugins[i].name : i \in 1..Len(builtinPlugins)} :
           Cardinality(PositionsOf(name)) = IF Enabled(name) THEN 1 ELSE 0
    /\ \A i \in 1..Len(pluginConfig.loadOrder) : Registered(pluginConfig.loadOrder[i])
    /\ \A a, b \in PluginNames :
           DependsOn(a, b) /\ a # b =>
               \A i \in PositionsOf(a) : \E j \in PositionsOf(b) : j < i

\* C31: as long as the enabled plugins have no dependency cycle, the load order
\* holds every enabled plugin exactly once, no disabled plugin, and every
\* enabled, registered dependency of a plugin before that plugin; a cycle among
\* the enabled plugins makes calculateLoadOrder throw the plugin-load error, and
\* only a cycle does
C31_LoadOrder ==
    /\ ~DependencyCycle => LoadOrderRight
    /\ DependencyCycle <=> pluginConfig.threw
    /\ pluginConfig.threw => pluginConfig.errors > 0

\* a cycle was raised and then removed, and a plugin of lower priority is loaded
\* before the plugin of higher priority that depends on it
C31_Witness ==
    /\ pluginConfig.errors > 0
    /\ ~DependencyCycle
    /\ \E a, b \in PluginNames :
           /\ DependsOn(a, b) /\ a # b
           /\ Get(pluginConfig.plugins, a).priority > Get(pluginConfig.plugins, b).priority
           /\ \E i \in PositionsOf(a), j \in PositionsOf(b) : j < i

-----------------------------------------------------------------------------
(* C32: the requester of cached tracks *)

Requesters == {"u1", "u2"}
RequesterOptions ==
    {[Opt(s, 0, 1, <<>>, c) EXCEPT !.requester = u] :
        s \in {"", "deezer"}, c \in BOOLEAN, u \in Requesters}
RequesterResolvers == {Resolver("timeout", 0, FALSE, g) : g \in {{}, {"ytsearch"}}}

NextRequester ==
    \/ search(Queries, RequesterOptions, RequesterResolvers)
    \/ resolveSettled
    \/ callerResumes(TRUE)
    \/ Tick

SpecRequester == Init /\ [][NextRequester]_vars

\* C32: every track of the result search(query, options) returns carries
\* options.requester, also when the result is served from the cache
C32_RequesterPassthrough ==
    out.status = "returned" /\ call.cls = "ts" =>
        \A i \in 1..Len(out.result.tracks) :
            out.result.tracks[i].requester = call.options.requester

-----------------------------------------------------------------------------
(* C33: a stopped player and the node's 'end' event *)

Commands(name) == {i \in 1..Len(last.cmds) : last.cmds[i].cmd = name}

\* stop() has returned on the part_004 player and a track follows in its queue
StoppedBeforeEnd ==
    /\ impl = "p003" /\ last.op = "stop" /\ last.threw = ""
    /\ At(queue_p003.tracks, queue_p003.currentIndex + 1) # null

\* the node's 'end' event with reason 'stopped' is handled
EndOfStop == last'.op = "end" /\ last'.arg = "stopped"

StaysStopped ==
    /\ Commands("playTrack")' = {}
    /\ player_p004'.currentTrack = null
    /\ queue_p003' = queue_p003

\* C33: after stop() on a player whose queue holds following tracks, handling
\* the node's 'end' event (reason 'stopped') issues no play command, leaves the
\* current track null and does not advance the queue
C33_StopStaysStopped == [][StoppedBeforeEnd /\ EndOfStop => StaysStopped]_vars

-----------------------------------------------------------------------------
(* C34: playing and the current track *)

\* the node has replaced a playing track by the one play() handed to it: its
\* 'end' event with reason 'replaced' has been handled, its 'start' event for
\* the new track comes next
ReplacedEnded ==
    /\ impl = "p003" /\ last.op = "end" /\ last.arg = "replaced"
    /\ last.before.playing /\ last.before.currentTrack # null

PlayingHasTrack == player_p004.playing => player_p004.currentTrack # null

\* C34: playing = true implies that the current track is not null, in the states
\* the part_004 player reaches by the events of a replaced track: 'end' with
\* reason 'replaced' and then 'start'
C34_PlayingHasTrack == [][ReplacedEnded /\ last'.op = "start" => PlayingHasTrack']_vars
-----------------------------------------------------------------------------
(* The part_003 queue with its calls recorded: probe.args holds, call after  *)
(* call, the operation, its arguments and the queue it was called on,        *)
(* probe.value the values returned.                                          *)

MaxTrace == 5
TraceAdds == {<<"t1">>, <<"t2">>, <<"t1", "t2", "t3">>}
TraceIndexes == {0, 1, 2}
TraceMoves == {<<0, 1>>, <<1, 0>>, <<0, 2>>}

Recorded(op, args, r) ==
    /\ impl \in {"", "p003"}
    /\ Len(probe.args) < MaxTrace
    /\ queue_p003' = r.queue
    /\ probe' = [fn |-> "queue",
                 args |-> Append(probe.args,
                                 [op |-> op, args |-> args, before |-> queue_p003]),
                 value |-> Append(probe.value, r.value)]
    /\ impl' = "p003"
    /\ nops' = nops + 1
    /\ last' = noLast
    /\ qhist' = staleHist
    /\ UNCHANGED <<searchVars, player_p004, queue, player, pending,
                   kazagumo, moved, late, pluginConfig>>

addRecorded ==
    \E tracksToAdd \in TraceAdds :
        /\ Len(queue_p003.tracks) + Len(tracksToAdd) <= MaxQueue
        /\ Recorded("add", tracksToAdd, Ret(add_p003(queue_p003, tracksToAdd), null))

removeRecorded ==
    \E index \in TraceIndexes :
        Recorded("remove", <<index>>, remove_p003(queue_p003, index))

moveRecorded ==
    \E m \in TraceMoves : Recorded("move", m, move_p003(queue_p003, m[1], m[2]))

clearRecorded == Recorded("clear", <<>>, Ret(clear_p003(queue_p003), null))

nextRecorded == Recorded("next", <<>>, next_p003(queue_p003))

setShuffleRecorded ==
    \/ \E rnd \in Draws(Len(queue_p003.tracks)) :
          Recorded("setShuffle", <<TRUE>>,
                   Ret(setShuffle_p003(queue_p003, TRUE, rnd), null))
    \/ Recorded("setShuffle", <<FALSE>>,
                Ret(setShuffle_p003(queue_p003, FALSE, <<>>), null))

NextTrace ==
    \/ addRecorded
    \/ removeRecorded
    \/ moveRecorded
    \/ clearRecorded
    \/ nextRecorded
    \/ setShuffleRecorded

SpecTrace == Init /\ [][NextTrace]_vars

Calls == probe.args
Values == probe.value
CallIs(i, op) == i >= 1 /\ i <= Len(Calls) /\ Calls[i].op = op

-----------------------------------------------------------------------------
(* C35: a track added to an exhausted queue *)

\* call j adds one track after a next() on a queue with tracks returned null
AddedAfterNull(j) ==
    /\ CallIs(j, "add") /\ Len(Calls[j].args) = 1
    /\ \E i \in 1..(j - 1) :
           CallIs(i, "next") /\ Values[i] = null /\ Calls[i].before.tracks # <<>>

OnlyNextSince(j) == \A k \in (j + 1)..Len(Calls) : CallIs(k, "next")

\* C35: with repeat off, a track added after next() has returned null is
\* returned by a later next(): of the next() calls that follow the add, two or
\* more of them with no other call between, one returns the track
C35_AddedTrackReached ==
    \A j \in 1..Len(Calls) :
        AddedAfterNull(j) /\ OnlyNextSince(j) /\ Len(Calls) >= j + 2 =>
            \E k \in (j + 1)..Len(Calls) : Values[k] = Calls[j].args[1]

-----------------------------------------------------------------------------
(* C36: remove() away from the current position *)

\* call n removed a track that was neither at the current position nor right
\* after it, from a queue with repeat and shuffle off
RemovedElsewhere(n) ==
    /\ CallIs(n, "remove") /\ Values[n] # null
    /\ LET q == Calls[n].before
           index == Calls[n].args[1]
       IN  /\ q.repeat = 0 /\ ~q.shuffle
           /\ index # q.currentIndex /\ index # q.currentIndex + 1
           /\ Values[n] # q.current
           /\ Values[n] # At(q.tracks, q.currentIndex + 1)

\* C36: with repeat off and shuffle off, remove(i) of a track that is neither
\* the current track nor the one right after it does not change which track the
\* following next() returns
C36_RemoveKeepsNext ==
    LET n == Len(Calls) - 1
    IN  RemovedElsewhere(n) /\ CallIs(n + 1, "next") =>
            Values[n + 1] = next_p003(Calls[n].before).value

-----------------------------------------------------------------------------
(* C37: setShuffle(false) without a shuffle *)

ShuffleNeverEnabled ==
    \A i \in 1..Len(Calls) :
        /\ Calls[i].op \in {"add", "remove", "move", "setShuffle"}
        /\ Calls[i].op = "setShuffle" => Calls[i].args = <<FALSE>>

\* C37: after add, remove and move calls with shuffle never enabled,
\* setShuffle(false) leaves the track sequence as it was
C37_UnshuffleKeepsOrder ==
    ShuffleNeverEnabled /\ CallIs(Len(Calls), "setShuffle") =>
        queue_p003.tracks = Last(Calls).before.tracks

-----------------------------------------------------------------------------
(* C38: size and the retained original order *)

Count(array, t) == Cardinality({i \in 1..Len(array) : array[i] = t})

\* C38: in every state the part_003 queue reaches by add, remove, move, clear
\* and setShuffle, size is the number of tracks and the retained original
\* order holds exactly the tracks of the live sequence
C38_SizeAndOriginalOrder ==
    (\A i \in 1..Len(Calls) : Calls[i].op # "next") =>
        /\ queue_p003.size = Len(queue_p003.tracks)
        /\ \A t \in Tracks :
               Count(queue_p003.originalOrder, t) = Count(queue_p003.tracks, t)

-----------------------------------------------------------------------------
(* C39: what moveVoiceChannel() changes *)

\* the last step was moveVoiceChannel() on a connected part_004 player up to
\* its first await, or what it does after one of its awaits
MoveStep ==
    /\ impl = "p003"
    /\ \/ last.op = "moveVoiceChannel" /\ last.threw = ""
       \/ last.op = "settled" /\ last.arg \in {"moveDestroy", "moveJoin"}

\* C39: moveVoiceChannel(channelId) on a connected player changes only the
\* voice connection: no step of it changes the queue's tracks, the current
\* track or the player's listeners
C39_MoveKeepsQueue ==
    MoveStep =>
        /\ queue_p003.tracks = last.qbefore.tracks
        /\ player_p004.currentTrack = last.before.currentTrack
        /\ player_p004.listeners = last.before.listeners

-----------------------------------------------------------------------------
(* C40: the search statistics *)

StatsOptions == {Opt("", 0, 1, f, TRUE) : f \in {<<>>, <<"spotify">>}}
StatsResolvers ==
    {Resolver("timeout", 0, FALSE, g) : g \in {{}, {"ytsearch"}}}
    \cup {Resolver("reject", 0, TRUE, {})}

NextStats ==
    \/ search({TextQuery}, StatsOptions, StatsResolvers)
    \/ resolveSettled
    \/ callerResumes(TRUE)
    \/ clearCache
    \/ resetStats

SpecStats == Init /\ [][NextStats]_vars

\* C40: in every reachable state of the search statistics, errors and cacheHits
\* are at most totalSearches, whatever the interleaving of a search() in flight
\* with clearCache() and resetStats()
C40_StatsBounded ==
    /\ searchStats.errors <= searchStats.totalSearches
    /\ searchStats.cacheHits <= searchStats.totalSearches

====
